---- MODULE Spec2Model ----
(***************************************************************************)
(* anchorman: the commit store (repos, raw_commits, tasks, projects) and   *)
(* the three pipelines that write to it:                                   *)
(*   Ingest   (internal/git, hook-triggered, one HEAD commit),             *)
(*   Import   (internal/git, a commit range, optional force mode),         *)
(*   Process  (internal/tui/screens, task derivation by an external agent).*)
(* Every pipeline invocation is a process of its own; the invocations share*)
(* nothing but the SQLite store, and each SQL statement is one atomic step.*)
(***************************************************************************)
EXTENDS Integers, Sequences, FiniteSets, Bags, TLC

\* ---------------------------------------------------------------- bounds
MaxProcs == 2       \* pipeline invocations in flight at the same time
MaxTasks == 2       \* rows ever inserted into tasks
MaxLines == 2       \* task lines parsed out of one agent response
MaxProjects == 1    \* rows ever inserted into projects
MaxGroups == 2      \* rows ever inserted into projects where runs have several groups
MaxDepth == 3       \* segments of a path handed to the scan-path gate
MaxOps == 3         \* hooks commands run one after the other
MaxCompanies == 1   \* rows ever inserted into companies
MaxRepoRows == 2    \* rows ever inserted into repos where repos are deleted
MaxToken == 300     \* largest ordinary hour token, in hundredths of an hour
MaxResponseLines == 2  \* lines of one agent response handed to the parser
MaxCount == 1          \* what a count or a load on a screen reports
MaxInflight == 2       \* commands of the terminal program whose message is due

\* ------------------------------------------------------------ the world
NoId == 0                                  \* SQL NULL / Go nil for an id
ScanPaths == {<<"a", "b">>}                \* Config.ScanPaths
RepoPaths == {<<"a", "b", "r1">>, <<"x">>}  \* working copies on this machine
Hist == <<"h1", "h2">>                     \* git history of a working copy, oldest first
Hashes == {Hist[i] : i \in 1..Len(Hist)}
Versions == {"v1", "v2"}                   \* what the extractor may report for one hash
AgentTypes == {"codex", "claude", "gpt"}   \* Config.DefaultAgent

VARIABLES
    repos,        \* table repos: records [id, path, project]
    commits,      \* table raw_commits: records [id, repo, hash, info, processed]
    tasks,        \* table tasks: records [id, project, commits]
    projects,     \* table projects: records [id, company]; history: left, the
                  \* company whose deletion set company to NULL
    companies,    \* table companies: set of ids
    seq,          \* sqlite_sequence: last AUTOINCREMENT id handed out per table
    procs,        \* the pipeline invocations in flight: a bag of their local states
    last,         \* what the invocation that returned last returned to its caller,
                  \* kept until the next invocation starts
    hookfs,       \* the managed hooks directory, the directory of a previously
                  \* configured hook path, and git's global core.hooksPath
    hookhist,     \* history: the layout before the first hooks command, and the
                  \* hooks commands run since
    ui            \* the terminal program: the screen shown, the model of the
                  \* screen visited last, the commands whose message is due

hookvars == <<hookfs, hookhist>>
vars == <<repos, commits, tasks, projects, companies, seq, procs, last, hookfs, hookhist, ui>>

\* ------------------------------------------------------- Scan-Path Gate
\* Segments whose first character is a dot.
DotSegments == {".", "..", ".cfg"}

RECURSIVE CommonLen(_, _)
\* Number of leading segments two absolute paths share.
CommonLen(a, b) ==
    IF a = <<>> \/ b = <<>> \/ Head(a) # Head(b) THEN 0
    ELSE 1 + CommonLen(Tail(a), Tail(b))

\* filepath.Rel(base, targ) on clean absolute paths: one ".." per segment of base
\* below the common prefix, then the rest of targ; "." when nothing is left.
Rel(base, targ) ==
    LET k == CommonLen(base, targ)
        ups == [i \in 1..(Len(base) - k) |-> ".."]
        rest == SubSeq(targ, k + 1, Len(targ))
    IN  IF ups \o rest = <<>> THEN <<".">> ELSE ups \o rest

\* Config.IsPathTracked over the roots scanPaths: rel[0] != '.' or rel == "."
IsPathTrackedIn(scanPaths, repoPath) ==
    \E scanPath \in scanPaths :
        LET rel == Rel(scanPath, repoPath)
        IN  (rel[1] \notin DotSegments) \/ (rel = <<".">>)

\* Variant: the gate that lets every path through.
IsPathTrackedAlways(repoPath) == TRUE

\* cfg.IsPathTracked(repoPath) with the loaded configuration.
IsPathTracked(repoPath) == IsPathTrackedIn(ScanPaths, repoPath)

\* ------------------------------------------------- the version-control tool
\* GetCurrentCommit / one entry of GetCommitHistory: the metadata the extractor
\* reports for a hash.  The tool is an oracle: v says which answer it gave.
CommitInfo(h, v) ==
    [Hash |-> h, Message |-> v, Author |-> v, Branch |-> v,
     FilesChanged |-> v, CommittedAt |-> v]

\* --------------------------------------------------------- the SQL store
\* A SELECT that found no row (Go nil).
NoRow == [id |-> NoId, project |-> NoId]

\* Variant: the SELECT never matches (the path is compared in another form
\* than the one stored).
GetByPathMiss(path) == NoRow

\* RepoRepo.GetByPath: the row with this path, or nil.
GetByPath(path) ==
    IF \E r \in repos : r.path = path
    THEN CHOOSE r \in repos : r.path = path
    ELSE NoRow

\* RepoRepo.GetByID
RepoGetByID(id) ==
    IF \E r \in repos : r.id = id
    THEN CHOOSE r \in repos : r.id = id
    ELSE NoRow

\* repos.path is UNIQUE: INSERT INTO repos fails when the path is taken.
RepoInsertAllowed(path) == \A r \in repos : r.path # path

\* Variant: WHERE rc.id = ? AND rc.hash = ? (the commit id in place of repo_id).
GetByIdAndHash(repoID, hash) ==
    IF \E c \in commits : c.id = repoID /\ c.hash = hash
    THEN CHOOSE c \in commits : c.id = repoID /\ c.hash = hash
    ELSE NoRow

\* CommitRepo.GetByRepoAndHash: the row of (repo_id, hash), or nil.
GetByRepoAndHash(repoID, hash) ==
    IF \E c \in commits : c.repo = repoID /\ c.hash = hash
    THEN CHOOSE c \in commits : c.repo = repoID /\ c.hash = hash
    ELSE NoRow

\* Variant: the schema without UNIQUE(repo_id, hash).
CommitInsertNoUnique(repoID, hash) == \E r \in repos : r.id = repoID

\* raw_commits: UNIQUE(repo_id, hash) and FOREIGN KEY (repo_id) REFERENCES repos.
CommitInsertAllowed(repoID, hash) ==
    /\ \A c \in commits : ~(c.repo = repoID /\ c.hash = hash)
    /\ \E r \in repos : r.id = repoID

\* Variant: the column declared processed INTEGER DEFAULT 1.
NewCommitProcessed(id, repoID, info) ==
    [id |-> id, repo |-> repoID, hash |-> info.Hash, info |-> info,
     processed |-> TRUE, retracted |-> {}, staleMark |-> FALSE]

\* The row CommitRepo.Create inserts: processed DEFAULT 0.
\* History, not columns: retracted holds the ids of the tasks that referenced the
\* row when its last forced reimport found it processed; staleMark says that the
\* row was marked processed by a run that had read it before its last forced
\* rewrite.
NewCommit(id, repoID, info) ==
    [id |-> id, repo |-> repoID, hash |-> info.Hash, info |-> info,
     processed |-> FALSE, retracted |-> {}, staleMark |-> FALSE]

\* ------------------------------------------------------------ invocations
NoOp == [kind |-> "none"]

\* Every invocation is an operating-system process of its own.  Two invocations
\* with equal local state are interchangeable, so the ones in flight form a bag.
Running == BagToSet(procs)

CanStart == BagCardinality(procs) < MaxProcs

\* The invocations in flight other than the one in local state pr.
Others(pr) == procs (-) SetToBag({pr})

\* The invocation in local state pr moves on to local state nx.
Goto(pr, nx) == procs' = Others(pr) (+) SetToBag({nx})

\* An invocation of pipeline kind on working copy path with arguments arg that
\* starts now repeats the one that returned last: same pipeline, same working
\* copy, same arguments, and that one succeeded (for Ingest: recorded its commit).
Repeats(kind, path, arg) ==
    /\ last.kind = kind
    /\ last.path = path
    /\ last.arg = arg
    /\ last.err = ""
    /\ kind = "ingest" => ~last.res.Skipped

\* What is kept of an invocation once it has returned.
Summary(pr, res, err) ==
    [kind |-> pr.kind, path |-> pr.path, arg |-> pr.arg, repeat |-> pr.repeat,
     res |-> res, err |-> err]

\* The invocation in local state pr returns res / err to its caller.
Return(pr, res, err) ==
    /\ procs' = procs (-) SetToBag({pr})
    /\ last' = Summary(pr, res, err)

\* ------------------------------------------------------ the hook files
\* A directory is a function from the names of its files to their contents.
NoFiles == << >>
WriteFile(files, name, content) == (name :> content) @@ files
Remove(files, name) == [n \in DOMAIN files \ {name} |-> files[n]]
\* os.Rename replaces the file at the new name.
Rename(files, from, to) == WriteFile(Remove(files, from), to, files[from])

\* The values of git config --global core.hooksPath: unset, HooksDir(), and
\* one other directory.
Unset == ""
HooksDir == "~/.config/git/hooks"
OtherDir == "/other/hooks"

postCommitHook == "# Anchorman post-commit hook"
postMergeHook == "# Anchorman post-merge hook"
ForeignScripts == {"foreign 1", "foreign 2"}

\* strings.Contains(content, "Anchorman")
HasMarker(content) == content \in {postCommitHook, postMergeHook}

\* hookPath + ".legacy"
Legacy(name) == name \o ".legacy"

\* No hooks directory, nothing configured.
NoHooks == [exists |-> FALSE, files |-> NoFiles, hooksPath |-> Unset, old |-> NoFiles]

\* ------------------------------------------------------ the terminal program
\* A command that produces no message (a nil tea.Cmd).
NoCmd == [cmd |-> "none"]

\* Navigate(screen): the command whose message is NavigateMsg{Screen: screen}.
Navigate(screen) == [cmd |-> "Navigate", screen |-> screen]

\* NewApp: the dashboard is shown, no screen has been visited, nothing is due.
NewApp == [screen |-> "dashboard", model |-> [of |-> "none"], inflight |-> EmptyBag]

\* The database after the migrations, nothing in flight.
InitStore ==
    /\ repos = {}
    /\ commits = {}
    /\ tasks = {}
    /\ projects = {}
    /\ companies = {}
    /\ seq = [repos |-> 0, commits |-> 0, tasks |-> 0, projects |-> 0, companies |-> 0]
    /\ procs = EmptyBag
    /\ last = NoOp
    /\ ui = NewApp

Init ==
    /\ InitStore
    /\ hookfs = NoHooks
    /\ hookhist = [pre |-> NoHooks, ops |-> << >>]

\* --------------------------------------------------- RepoRepo.GetOrCreate
\* First statement: SELECT ... WHERE r.path = ? (GetByPath).
GetOrCreateSelect(pr) ==
    /\ pr.pc = "getRepo"
    /\ LET repo == GetByPath(pr.path)
       IN  IF repo.id # NoId
           THEN Goto(pr, [pr EXCEPT !.pc = "lookup", !.repo = repo])
           ELSE Goto(pr, [pr EXCEPT !.pc = "createRepo"])
    /\ UNCHANGED <<repos, commits, tasks, projects, seq, last>>
    /\ UNCHANGED <<companies, hookvars, ui>>

\* Second statement: INSERT INTO repos (path, project_id) VALUES (?, NULL).
GetOrCreateInsert(pr, errRes) ==
    /\ pr.pc = "createRepo"
    /\ IF RepoInsertAllowed(pr.path)
       THEN LET repo == [id |-> seq.repos + 1, path |-> pr.path, project |-> NoId]
            IN  /\ repos' = repos \cup {repo}
                /\ seq' = [seq EXCEPT !.repos = @ + 1]
                /\ Goto(pr, [pr EXCEPT !.pc = "lookup", !.repo = repo])
                /\ UNCHANGED last
       ELSE /\ Return(pr, errRes, "failed to get/create repo")
            /\ UNCHANGED <<repos, seq>>
    /\ UNCHANGED <<commits, tasks, projects>>
    /\ UNCHANGED <<companies, hookvars, ui>>

\* ------------------------------------------------------------------ Ingest
\* Variant: the check that never fails.
IsGitRepoAlways(inRepo) == TRUE

\* IsGitRepo: git rev-parse --is-inside-work-tree succeeded; inRepo says whether
\* the invocation runs inside a working copy with git at hand.
IsGitRepo(inRepo) == inRepo

IngestRes(skipped, reason) == [Skipped |-> skipped, SkipReason |-> reason]

\* Ingest, up to the point where it opens the database: IsGitRepo, GetRepoRoot,
\* the scan-path gate, GetCurrentCommit.  others are the invocations in flight
\* next to the one that starts.
IngestStartFrom(others, inRepo, path, h, v) ==
    /\ LET arg == [inRepo |-> inRepo, hash |-> h]
           pr == [kind |-> "ingest", pc |-> "getRepo", path |-> path, arg |-> arg,
                  info |-> CommitInfo(h, v), repo |-> NoRow,
                  repeat |-> Repeats("ingest", path, arg)]
       IN  IF ~IsGitRepo(inRepo)
           THEN /\ last' = Summary(pr, IngestRes(TRUE, "not a git repository"), "")
                /\ procs' = others
           ELSE IF ~IsPathTracked(path)
           THEN /\ last' = Summary(pr,
                        IngestRes(TRUE, "repo path not in configured scan_paths"), "")
                /\ procs' = others
           ELSE /\ procs' = others (+) SetToBag({pr})
                /\ last' = NoOp
    /\ UNCHANGED <<repos, commits, tasks, projects, seq>>
    /\ UNCHANGED <<companies, hookvars, ui>>

IngestStart(inRepo, path, h, v) ==
    /\ CanStart
    /\ IngestStartFrom(procs, inRepo, path, h, v)

IngestGetRepo(pr) ==
    /\ pr.kind = "ingest"
    /\ GetOrCreateSelect(pr)

IngestCreateRepo(pr) ==
    /\ pr.kind = "ingest"
    /\ GetOrCreateInsert(pr, IngestRes(FALSE, ""))

\* commitRepo.GetByRepoAndHash and the "commit already recorded" return.
IngestLookup(pr) ==
    /\ pr.kind = "ingest"
    /\ pr.pc = "lookup"
    /\ LET existing == GetByRepoAndHash(pr.repo.id, pr.info.Hash)
       IN  IF existing.id # NoId
           THEN Return(pr, IngestRes(TRUE, "commit already recorded"), "")
           ELSE /\ Goto(pr, [pr EXCEPT !.pc = "insert"])
                /\ UNCHANGED last
    /\ UNCHANGED <<repos, commits, tasks, projects, seq>>
    /\ UNCHANGED <<companies, hookvars, ui>>

\* commitRepo.Create and the final return.
IngestInsert(pr) ==
    /\ pr.kind = "ingest"
    /\ pr.pc = "insert"
    /\ IF CommitInsertAllowed(pr.repo.id, pr.info.Hash)
       THEN /\ commits' = commits \cup {NewCommit(seq.commits + 1, pr.repo.id, pr.info)}
            /\ seq' = [seq EXCEPT !.commits = @ + 1]
            /\ Return(pr, IngestRes(FALSE, ""), "")
       ELSE /\ Return(pr, IngestRes(FALSE, ""), "failed to create commit record")
            /\ UNCHANGED <<commits, seq>>
    /\ UNCHANGED <<repos, tasks, projects>>
    /\ UNCHANGED <<companies, hookvars, ui>>

\* ------------------------------------------------------------------ Import
\* GetCommitHistory: git log prints the newest commit first; -n<Count> when
\* Count > 0, --since when Since is set (since = k keeps the commits from the
\* k-th of the history on; 0 is the zero time).  One CommitInfo per line.
GetCommitHistory(count, since, v) ==
    LET kept == {i \in 1..Len(Hist) : since = 0 \/ i >= since}
        n == IF count > 0 /\ count < Cardinality(kept) THEN count ELSE Cardinality(kept)
    IN  [k \in 1..n |-> CommitInfo(Hist[Len(Hist) + 1 - k], v)]

ImportRes0 ==
    [Imported |-> 0, Skipped |-> 0, Updated |-> 0, TasksDeleted |-> 0,
     TotalFound |-> 0, IsOrphan |-> FALSE, NotInScanPath |-> FALSE]

\* Variant: only the tasks whose source_commits is exactly [id].
TasksOfCommitAlone(commitID) == {t \in tasks : t.commits = {commitID}}

\* TaskRepo.DeleteTasksWithCommit: the tasks whose source_commits contains the id.
TasksWithCommit(commitID) == {t \in tasks : commitID \in t.commits}

\* Variant: the UPDATE without "processed = 0".
UpdateKeepProcessed(c, info) == [c EXCEPT !.info = [info EXCEPT !.Hash = c.hash]]

\* CommitRepo.UpdateAndMarkUnprocessed: UPDATE raw_commits SET message, author,
\* branch, files_changed, committed_at, processed = 0 WHERE id = ?
UpdateAndMarkUnprocessed(c, info) ==
    [c EXCEPT !.info = [info EXCEPT !.Hash = c.hash], !.processed = FALSE]

\* Variant: Import stops at the gate as Ingest does.
OnUntrackedReject == "reject"

\* What Import does with a path the gate does not let through: it sets
\* result.NotInScanPath and goes on.
OnUntracked == "warn"

\* Import, up to the point where it opens the database: IsGitRepo, GetRepoRoot,
\* the scan-path gate (a warning only), GetCommitHistory, the empty-range return.
ImportStart(inRepo, path, count, since, force, v) ==
    /\ CanStart
    /\ LET arg == [inRepo |-> inRepo, count |-> count, since |-> since, force |-> force]
           list == GetCommitHistory(count, since, v)
           res == [ImportRes0 EXCEPT !.NotInScanPath = ~IsPathTracked(path),
                                     !.TotalFound = Len(list)]
           pr == [kind |-> "import", pc |-> "getRepo", path |-> path, arg |-> arg,
                  list |-> list, i |-> 1, repo |-> NoRow, existing |-> NoRow,
                  dropped |-> {}, res |-> res, repeat |-> Repeats("import", path, arg)]
       IN  IF ~IsGitRepo(inRepo)
           THEN /\ last' = Summary(pr, ImportRes0, "not a git repository")
                /\ UNCHANGED procs
           ELSE IF OnUntracked = "reject" /\ ~IsPathTracked(path)
           THEN /\ last' = Summary(pr, res, "repo path not in configured scan_paths")
                /\ UNCHANGED procs
           ELSE IF Len(list) = 0
           THEN /\ last' = Summary(pr, res, "")
                /\ UNCHANGED procs
           ELSE /\ procs' = procs (+) SetToBag({pr})
                /\ last' = NoOp
    /\ UNCHANGED <<repos, commits, tasks, projects, seq>>
    /\ UNCHANGED <<companies, hookvars, ui>>

ImportGetRepo(pr) ==
    /\ pr.kind = "import"
    /\ GetOrCreateSelect(pr)

ImportCreateRepo(pr) ==
    /\ pr.kind = "import"
    /\ GetOrCreateInsert(pr, pr.res)

\* The loop moves on to the next commit, or Import returns its result.
ImportAdvance(pr, res, rest) ==
    IF pr.i = Len(pr.list)
    THEN /\ procs' = rest
         /\ last' = Summary(pr, res, "")
    ELSE /\ procs' = rest (+) SetToBag({[pr EXCEPT !.pc = "lookup", !.i = pr.i + 1,
                                                  !.res = res, !.existing = NoRow,
                                                  !.dropped = {}]})
         /\ UNCHANGED last

\* Variant: the existing commit is passed over without being counted.
CountSkippedNot(res) == res

\* result.Skipped++
CountSkipped(res) == [res EXCEPT !.Skipped = @ + 1]

\* Loop head: result.IsOrphan on the first pass, then commitRepo.GetByRepoAndHash
\* and the branch on existing / opts.Force.
ImportLookup(pr) ==
    /\ pr.kind = "import"
    /\ pr.pc = "lookup"
    /\ LET existing == GetByRepoAndHash(pr.repo.id, pr.list[pr.i].Hash)
           res == [pr.res EXCEPT !.IsOrphan = (pr.repo.project = NoId)]
       IN  IF existing.id = NoId
           THEN /\ Goto(pr, [pr EXCEPT !.pc = "insert", !.res = res])
                /\ UNCHANGED last
           ELSE IF pr.arg.force
           THEN /\ Goto(pr, [pr EXCEPT !.pc = "deleteTasks", !.res = res,
                                      !.existing = existing])
                /\ UNCHANGED last
           ELSE ImportAdvance(pr, CountSkipped(res), Others(pr))
    /\ UNCHANGED <<repos, commits, tasks, projects, seq>>
    /\ UNCHANGED <<companies, hookvars, ui>>

\* Force mode, first half: taskRepo.DeleteTasksWithCommit(existing.ID).
ImportDeleteTasks(pr) ==
    /\ pr.kind = "import"
    /\ pr.pc = "deleteTasks"
    /\ LET toDelete == TasksWithCommit(pr.existing.id)
       IN  /\ tasks' = tasks \ toDelete
           /\ Goto(pr, [pr EXCEPT !.pc = "update",
                                  !.dropped = {t.id : t \in {x \in tasks :
                                                    pr.existing.id \in x.commits}},
                                  !.res.TasksDeleted = @ + Cardinality(toDelete)])
    /\ UNCHANGED <<repos, commits, projects, seq, last>>
    /\ UNCHANGED <<companies, hookvars, ui>>

\* History: a derivation run that has read the row id learns that the row was
\* rewritten since.
NoteRewrite(id, B) ==
    LET S == BagToSet(B)
        F(x) == IF x.kind = "derive" /\ id \in {c.id : c \in x.snap}
                THEN [x EXCEPT !.stale = @ \cup {id}] ELSE x
    IN  [y \in {F(x) : x \in S} |->
            Cardinality({xk \in UNION {{x} \X (1..B[x]) : x \in S} : F(xk[1]) = y})]

\* Force mode, second half: commitRepo.UpdateAndMarkUnprocessed(existing.ID, ...).
\* The UPDATE changes nothing when the row is gone.
ImportUpdate(pr) ==
    /\ pr.kind = "import"
    /\ pr.pc = "update"
    /\ commits' = {IF c.id = pr.existing.id
                   THEN [UpdateAndMarkUnprocessed(c, pr.list[pr.i]) EXCEPT
                            !.retracted = IF pr.existing.processed
                                          THEN pr.dropped ELSE {},
                            !.staleMark = FALSE]
                   ELSE c : c \in commits}
    /\ tasks' = {IF pr.existing.id \in t.commits THEN [t EXCEPT !.stale = TRUE] ELSE t :
                    t \in tasks}
    /\ ImportAdvance(pr, [pr.res EXCEPT !.Updated = @ + 1],
                     NoteRewrite(pr.existing.id, Others(pr)))
    /\ UNCHANGED <<repos, projects, seq>>
    /\ UNCHANGED <<companies, hookvars, ui>>

\* commitRepo.Create inside the loop.
ImportInsert(pr) ==
    /\ pr.kind = "import"
    /\ pr.pc = "insert"
    /\ IF CommitInsertAllowed(pr.repo.id, pr.list[pr.i].Hash)
       THEN /\ commits' = commits \cup
                    {NewCommit(seq.commits + 1, pr.repo.id, pr.list[pr.i])}
            /\ seq' = [seq EXCEPT !.commits = @ + 1]
            /\ ImportAdvance(pr, [pr.res EXCEPT !.Imported = @ + 1], Others(pr))
       ELSE /\ Return(pr, pr.res, "failed to create commit record")
            /\ UNCHANGED <<commits, seq>>
    /\ UNCHANGED <<repos, tasks, projects>>
    /\ UNCHANGED <<companies, hookvars, ui>>

\* ------------------------------------------- Process screen: task derivation
\* CommitRepo.GetUnprocessed: WHERE rc.processed = 0.  Of a row the run uses the
\* id and the repository (the other columns only feed the prompt).
GetUnprocessed == {[id |-> c.id, repo |-> c.repo] : c \in {x \in commits : ~x.processed}}

\* Variant: agent.New with a default case that returns an agent.
KnownAgentAny(agentType) == TRUE

\* agent.New: the known agent types.
KnownAgent(agentType) == agentType \in {"codex", "claude"}

\* Variant: the grouping loop without the "repo.ProjectID == nil" skip.
InGroupNoNilCheck(c, id) == RepoGetByID(c.repo).id # NoId /\ RepoGetByID(c.repo).project = id

\* The grouping loop of runProcessing puts commit c of the loaded list into the
\* group of project id iff repoRepo.GetByID finds its repo and the repo's
\* ProjectID is that project (a nil ProjectID is skipped).
InGroup(c, id) ==
    LET repo == RepoGetByID(c.repo)
    IN  repo.id # NoId /\ repo.project # NoId /\ repo.project = id

\* Variant: one map entry for the whole list, under the project met first.
GroupByProjectMerged(snap) ==
    LET met == {RepoGetByID(c.repo).project : c \in snap} \ {NoId}
        ids == {c.id : c \in {x \in snap : \E id \in met : InGroup(x, id)}}
    IN  IF met = {} THEN {}
        ELSE {[project |-> CHOOSE id \in met : \A o \in met : id <= o, ids |-> ids]}

\* commitsByProject: one group per project met, with the ids of its commits.
GroupByProject(snap) ==
    {g \in {[project |-> id, ids |-> {c.id : c \in {x \in snap : InGroup(x, id)}}] :
                id \in {RepoGetByID(c.repo).project : c \in snap}} :
        g.ids # {}}

\* tasks: FOREIGN KEY (project_id) REFERENCES projects(id).
TaskInsertAllowed(projectID) == \E p \in projects : p.id = projectID

\* Variant: the error of taskRepo.Create ends the loop over the task lines only.
OnCreateErrorBreak == "mark"

\* What runProcessing does when taskRepo.Create fails: it returns the error.
OnCreateError == "return"

\* Variant: a failed agent call counts as an answer without task lines.
OnAgentErrorMark == "mark"

\* What runProcessing does when ag.Process fails: it returns the error.
OnAgentError == "return"

\* Process.loadCommits: the user picked a range on the Process screen.
DeriveLoad ==
    /\ CanStart
    /\ procs' = procs (+) SetToBag({
            [kind |-> "derive", pc |-> "confirm", path |-> <<>>, arg |-> "all",
             repeat |-> FALSE, snap |-> GetUnprocessed, stale |-> {},
             groups |-> {}, all |-> {}, cur |-> [project |-> NoId, ids |-> {}],
             lines |-> 0, created |-> 0, total |-> 0, agentOk |-> TRUE]})
    /\ last' = NoOp
    /\ UNCHANGED <<repos, commits, tasks, projects, seq>>
    /\ UNCHANGED <<companies, hookvars, ui>>

\* processCompleteMsg.  History: orphans counts the loaded commits that the
\* grouping loop left out of every group.
DeriveRes(pr, groups) ==
    [tasksCreated |-> pr.total,
     orphans |-> Cardinality({c \in pr.snap : \A g \in groups : c.id \notin g.ids})]

\* Process.handleConfirmKey "esc" / "n" / "q": the run is dropped.
DeriveCancel(pr) ==
    /\ pr.kind = "derive"
    /\ pr.pc = "confirm"
    /\ procs' = Others(pr)
    /\ UNCHANGED <<repos, commits, tasks, projects, seq, last>>
    /\ UNCHANGED <<companies, hookvars, ui>>

\* runProcessing up to its loop over the groups: the empty-list return, the
\* grouping loop, agent.New.
DeriveGroup(pr, agentType) ==
    /\ pr.kind = "derive"
    /\ pr.pc = "confirm"
    /\ LET groups == GroupByProject(pr.snap)
       IN  IF pr.snap = {}
           THEN Return(pr, DeriveRes(pr, groups), "")
           ELSE IF ~KnownAgent(agentType)
           THEN Return(pr, DeriveRes(pr, groups), "unknown agent type")
           ELSE IF groups = {}
           THEN Return(pr, DeriveRes(pr, groups), "")
           ELSE /\ Goto(pr, [pr EXCEPT !.pc = "agent", !.groups = groups,
                                      !.all = groups])
                /\ UNCHANGED last
    /\ UNCHANGED <<repos, commits, tasks, projects, seq>>
    /\ UNCHANGED <<companies, hookvars, ui>>

\* One pass of the loop over commitsByProject (a Go map: any order), up to the
\* answer of ag.Process: an error, or n parsed task lines.  History: agentOk
\* tells whether the agent call of the group the run is at succeeded.
DeriveAgent(pr, g, ok, n) ==
    /\ pr.kind = "derive"
    /\ pr.pc = "agent"
    /\ g \in pr.groups
    /\ IF ~ok
       THEN IF OnAgentError = "return"
            THEN Return(pr, DeriveRes(pr, pr.all), "failed to process")
            ELSE /\ Goto(pr, [pr EXCEPT !.pc = OnAgentError, !.groups = @ \ {g},
                                       !.cur = g, !.lines = 0, !.created = 0,
                                       !.agentOk = FALSE])
                 /\ UNCHANGED last
       ELSE /\ Goto(pr, [pr EXCEPT !.pc = IF n = 0 THEN "mark" ELSE "persist",
                                  !.groups = @ \ {g}, !.cur = g,
                                  !.lines = n, !.created = 0, !.agentOk = TRUE])
            /\ UNCHANGED last
    /\ UNCHANGED <<repos, commits, tasks, projects, seq>>
    /\ UNCHANGED <<companies, hookvars, ui>>

\* taskRepo.Create for one parsed line; ok = FALSE is a persistence error.
DeriveCreateTask(pr, ok) ==
    /\ pr.kind = "derive"
    /\ pr.pc = "persist"
    /\ IF ok /\ TaskInsertAllowed(pr.cur.project)
       THEN /\ seq.tasks < MaxTasks
            /\ tasks' = tasks \cup
                    {[id |-> seq.tasks + 1, project |-> pr.cur.project,
                      commits |-> pr.cur.ids,
                      stale |-> (pr.cur.ids \cap pr.stale # {})]}
            /\ seq' = [seq EXCEPT !.tasks = @ + 1]
            /\ Goto(pr, [pr EXCEPT !.created = @ + 1, !.total = @ + 1,
                                   !.pc = IF pr.created + 1 = pr.lines
                                          THEN "mark" ELSE "persist"])
            /\ UNCHANGED last
       ELSE /\ IF OnCreateError = "return"
               THEN Return(pr, DeriveRes(pr, pr.all), "failed to create task")
               ELSE /\ Goto(pr, [pr EXCEPT !.pc = OnCreateError])
                    /\ UNCHANGED last
            /\ UNCHANGED <<tasks, seq>>
    /\ UNCHANGED <<repos, commits, projects>>
    /\ UNCHANGED <<companies, hookvars, ui>>

\* Variant: only the commits that a task references are marked.
MarkProcessedWithTask(ids, stale) ==
    {IF c.id \in ids /\ \E t \in tasks : c.id \in t.commits
     THEN [c EXCEPT !.processed = TRUE, !.staleMark = (c.id \in stale)]
     ELSE c : c \in commits}

\* CommitRepo.MarkProcessed: UPDATE raw_commits SET processed = 1 WHERE id IN (ids).
MarkProcessed(ids, stale) ==
    {IF c.id \in ids
     THEN [c EXCEPT !.processed = TRUE, !.staleMark = (c.id \in stale)]
     ELSE c : c \in commits}

\* commitRepo.MarkProcessed(commitIDs), then the next group or the final return.
DeriveMark(pr, ok) ==
    /\ pr.kind = "derive"
    /\ pr.pc = "mark"
    /\ IF ~ok
       THEN /\ Return(pr, DeriveRes(pr, pr.all), "failed to mark commits processed")
            /\ UNCHANGED commits
       ELSE /\ commits' = MarkProcessed(pr.cur.ids, pr.stale)
            /\ IF pr.groups = {}
               THEN Return(pr, DeriveRes(pr, pr.all), "")
               ELSE /\ Goto(pr, [pr EXCEPT !.pc = "agent"])
                    /\ UNCHANGED last
    /\ UNCHANGED <<repos, tasks, projects, seq>>
    /\ UNCHANGED <<companies, hookvars, ui>>

\* --------------------------------------------------- agent: parseResponse
\* Hours are float64 values.  A value is a decimal number of hundredths, or
\* +Inf; of the finite values above MaxFloat64 / 2 only the class is kept.
Hours(h) == [class |-> "decimal", h |-> h]
HugeHours == [class |-> "huge", h |-> 0]
PosInf == [class |-> "inf", h |-> 0]

\* The leading token of a task line, matched by timePattern ^\[(\d+\.?\d*)h\]:
\* none, a decimal of up to MaxToken hundredths, a decimal above MaxFloat64 / 2
\* that is still a float64, or a decimal beyond the float64 range.
NoToken == [class |-> "none", h |-> 0]
Tokens ==
    {NoToken} \cup {Hours(h) : h \in 0..MaxToken}
              \cup {HugeHours, [class |-> "range", h |-> 0]}

\* strconv.ParseFloat(match[1], 64): ErrRange (and +Inf) beyond the float64 range.
ParseFloat(token) ==
    [err |-> token.class = "range",
     val |-> IF token.class = "range" THEN PosInf ELSE token]

\* math.Round on hundredths: to the nearest integer, halves away from zero.
Round(x) == 100 * ((x + 50) \div 100)

\* roundToHalfHour: 0.5 below 0.5, else math.Round(hours*2) / 2.  hours*2
\* overflows to +Inf above MaxFloat64 / 2, and math.Round(+Inf) / 2 is +Inf.
roundToHalfHour(hours) ==
    IF hours.class = "decimal"
    THEN IF hours.h < 50 THEN Hours(50) ELSE Hours(Round(hours.h * 2) \div 2)
    ELSE PosInf

\* parseResponse on one task line: EstimatedHours is 0.5 unless the token
\* matched and parsed.
EstimatedHours(token) ==
    IF token.class = "none" \/ ParseFloat(token).err
    THEN Hours(50)
    ELSE roundToHalfHour(ParseFloat(token).val)

\* A string is the sequence of its characters; "é" stands for the characters
\* that take two bytes in UTF-8, every other character here takes one.
\* len(s) is the number of bytes.
ByteLen(s) == Len(s) + Cardinality({i \in 1..Len(s) : s[i] = "é"})

\* White space (unicode.IsSpace) and \d.
Space == {" ", "\t"}
Digit == {"0", "1", "2", "3", "4", "5", "6", "7", "8", "9"}

\* The number of characters of s from position i on that are in class before
\* the first one that is not.
RECURSIVE RunOf(_, _, _)
RunOf(s, i, class) ==
    IF i > Len(s) \/ s[i] \notin class THEN 0 ELSE 1 + RunOf(s, i + 1, class)

\* The number of characters of s before its first sep.
RECURSIVE Index(_, _)
Index(s, sep) ==
    IF s = << >> \/ Head(s) = sep THEN 0 ELSE 1 + Index(Tail(s), sep)

\* The number of white-space characters at the end of s.
RECURSIVE SpacesAtEnd(_)
SpacesAtEnd(s) ==
    IF s = << >> \/ s[Len(s)] \notin Space THEN 0
    ELSE 1 + SpacesAtEnd(SubSeq(s, 1, Len(s) - 1))

\* strings.TrimSpace
TrimSpace(s) ==
    LET lead == RunOf(s, 1, Space)
    IN  IF lead = Len(s) THEN << >>
        ELSE SubSeq(s, lead + 1, Len(s) - SpacesAtEnd(s))

\* strings.Split(response, "\n")
RECURSIVE Split(_)
Split(s) ==
    LET n == Index(s, "\n")
    IN  IF n = Len(s) THEN <<s>>
        ELSE <<SubSeq(s, 1, n)>> \o Split(SubSeq(s, n + 2, Len(s)))

\* timePattern = ^\[(\d+\.?\d*)h\]\s*  matched at the start of line: whether it
\* matches, the submatch, and the position behind the match.
timePattern(line) ==
    LET int == RunOf(line, 2, Digit)
        dot == IF 2 + int <= Len(line) /\ line[2 + int] = "." THEN 1 ELSE 0
        frac == RunOf(line, 2 + int + dot, Digit)
        h == 2 + int + dot + frac
        ok == /\ Len(line) >= 1 /\ line[1] = "["
              /\ int >= 1
              /\ h + 1 <= Len(line) /\ line[h] = "h" /\ line[h + 1] = "]"
    IN  [ok |-> ok,
         num |-> IF ok THEN SubSeq(line, 2, h - 1) ELSE << >>,
         end |-> IF ok THEN h + 2 + RunOf(line, h + 2, Space) ELSE 1]

\* The number a sequence of digits denotes.
RECURSIVE IntVal(_)
IntVal(ds) ==
    LET DigitVal(ch) ==
            CASE ch = "0" -> 0 [] ch = "1" -> 1 [] ch = "2" -> 2 [] ch = "3" -> 3
              [] ch = "4" -> 4 [] ch = "5" -> 5 [] ch = "6" -> 6 [] ch = "7" -> 7
              [] ch = "8" -> 8 [] ch = "9" -> 9
    IN  IF ds = << >> THEN 0
        ELSE 10 * IntVal(SubSeq(ds, 1, Len(ds) - 1)) + DigitVal(ds[Len(ds)])

\* The decimal a submatch of timePattern denotes, in hundredths (submatches
\* here have at most two digits behind the point).
TokenOf(num) ==
    LET int == RunOf(num, 1, Digit)
        frac == SubSeq(num, int + 2, Len(num))
    IN  Hours(100 * IntVal(SubSeq(num, 1, int))
              + (IF Len(frac) >= 1 THEN 10 * IntVal(<<frac[1]>>) ELSE 0)
              + (IF Len(frac) >= 2 THEN IntVal(<<frac[2]>>) ELSE 0))

\* The line without its leading "- " or "* " (strings.HasPrefix, TrimPrefix).
StripBullet(line) ==
    IF Len(line) >= 2 /\ SubSeq(line, 1, 2) \in {<<"-", " ">>, <<"*", " ">>}
    THEN SubSeq(line, 3, Len(line))
    ELSE line

\* The body of the loop of parseResponse: the tasks (none or one) of one line.
parseLine(raw) ==
    LET line == StripBullet(TrimSpace(raw))
        match == timePattern(line)
        result ==
            [EstimatedHours |-> IF match.ok THEN EstimatedHours(TokenOf(match.num))
                                ELSE Hours(50),
             Description |-> IF match.ok
                             THEN TrimSpace(SubSeq(line, match.end, Len(line)))
                             ELSE line]
    IN  IF TrimSpace(raw) = << >> THEN << >>
        ELSE IF ByteLen(line) < 5 THEN << >>
        ELSE IF result.Description # << >> THEN <<result>>
        ELSE << >>

\* The tasks of the lines, in the order of the lines.
RECURSIVE parseLines(_)
parseLines(lines) ==
    IF lines = << >> THEN << >>
    ELSE parseLine(Head(lines)) \o parseLines(Tail(lines))

parseResponse(response) == parseLines(Split(response))

\* ------------------------------------------- Projects and Repos screens
\* ProjectRepo.Create (Projects screen, "n" then a name), while fewer than n
\* projects were ever created.
CreateProjectUpTo(n) ==
    /\ seq.projects < n
    /\ projects' = projects \cup {[id |-> seq.projects + 1, company |-> NoId, left |-> NoId]}
    /\ seq' = [seq EXCEPT !.projects = @ + 1]
    /\ UNCHANGED <<repos, commits, tasks, procs, last>>
    /\ UNCHANGED <<companies, hookvars, ui>>

CreateProject == CreateProjectUpTo(MaxProjects)

\* RepoRepo.SetProject (Repos screen, "a" then "enter"): UPDATE repos SET project_id.
SetProject(id, projectID) ==
    /\ \E r \in repos : r.id = id /\ r.project # projectID
    /\ \E p \in projects : p.id = projectID
    /\ repos' = {IF r.id = id THEN [r EXCEPT !.project = projectID] ELSE r : r \in repos}
    /\ UNCHANGED <<commits, tasks, projects, seq, procs, last>>
    /\ UNCHANGED <<companies, hookvars, ui>>

\* ProjectRepo.SetCompany (Projects screen, "m" then "enter"): UPDATE projects
\* SET company_id; the company is one of the list on the screen.
SetCompany(id, companyID) ==
    /\ \E p \in projects : p.id = id /\ p.company # companyID
    /\ companyID \in companies
    /\ projects' = {IF p.id = id THEN [p EXCEPT !.company = companyID] ELSE p :
                        p \in projects}
    /\ UNCHANGED <<repos, commits, tasks, companies, seq, procs, last>>
    /\ UNCHANGED <<hookvars, ui>>

\* CompanyRepo.Create (Companies screen, "n" then a name).
CreateCompany ==
    /\ seq.companies < MaxCompanies
    /\ companies' = companies \cup {seq.companies + 1}
    /\ seq' = [seq EXCEPT !.companies = @ + 1]
    /\ UNCHANGED <<repos, commits, tasks, projects, procs, last>>
    /\ UNCHANGED <<hookvars, ui>>

\* Variant: projects.company_id with ON DELETE CASCADE.
ProjectsOnCompanyDeleteCascade(id) == {p \in projects : p.company # id}

\* projects: FOREIGN KEY (company_id) REFERENCES companies(id) ON DELETE SET NULL.
ProjectsOnCompanyDelete(id) ==
    {IF p.company = id THEN [p EXCEPT !.company = NoId, !.left = id] ELSE p :
        p \in projects}

\* CompanyRepo.Delete (Companies screen, "d" then "y"): DELETE FROM companies
\* WHERE id = ?, with foreign keys on.
DeleteCompany(id) ==
    /\ id \in companies
    /\ companies' = companies \ {id}
    /\ projects' = ProjectsOnCompanyDelete(id)
    /\ UNCHANGED <<repos, commits, tasks, seq, procs, last>>
    /\ UNCHANGED <<hookvars, ui>>

\* repos: FOREIGN KEY (project_id) REFERENCES projects(id) ON DELETE SET NULL.
ReposOnProjectDelete(id) ==
    {IF r.project = id THEN [r EXCEPT !.project = NoId] ELSE r : r \in repos}

\* Variant: the tasks table without ON DELETE CASCADE enforced.
TasksOnProjectDeleteKeep(id) == tasks

\* tasks: FOREIGN KEY (project_id) REFERENCES projects(id) ON DELETE CASCADE.
TasksOnProjectDelete(id) == {t \in tasks : t.project # id}

\* ProjectRepo.Delete (Projects screen, "d" then "y"): DELETE FROM projects
\* WHERE id = ?, with foreign keys on.
DeleteProject(id) ==
    /\ \E p \in projects : p.id = id
    /\ projects' = {p \in projects : p.id # id}
    /\ tasks' = TasksOnProjectDelete(id)
    /\ repos' = ReposOnProjectDelete(id)
    /\ UNCHANGED <<commits, companies, seq, procs, last>>
    /\ UNCHANGED <<hookvars, ui>>

\* raw_commits: FOREIGN KEY (repo_id) REFERENCES repos(id) ON DELETE CASCADE.
CommitsOnRepoDelete(id) == {c \in commits : c.repo # id}

\* RepoRepo.Delete (Repos.handleDeleteKey "y"): DELETE FROM repos WHERE id = ?,
\* with foreign keys on.  tasks.source_commits is a JSON text column: no
\* foreign key reaches it.
DeleteRepo(id) ==
    /\ \E r \in repos : r.id = id
    /\ repos' = {r \in repos : r.id # id}
    /\ commits' = CommitsOnRepoDelete(id)
    /\ UNCHANGED <<tasks, projects, companies, seq, procs, last>>
    /\ UNCHANGED <<hookvars, ui>>

\* ------------------------------------------------------- hooks install
\* migrateExistingHooks(oldDir, newDir): every file of oldDir is copied to
\* newDir under <name>.legacy.
MigrateExistingHooks(old, files) ==
    [n \in DOMAIN files \cup {Legacy(m) : m \in DOMAIN old} |->
        IF \E m \in DOMAIN old : Legacy(m) = n
        THEN old[CHOOSE m \in DOMAIN old : Legacy(m) = n]
        ELSE files[n]]

\* Variant: the existing file is backed up whether it carries the marker or not.
InstallHookAlwaysBackup(files, name, content) ==
    IF name \in DOMAIN files
    THEN WriteFile(Rename(files, name, Legacy(name)), name, content)
    ELSE WriteFile(files, name, content)

\* installHook(hooksDir, name, content): an existing file without the marker
\* is renamed to <name>.legacy, then the managed script is written.
InstallHook(files, name, content) ==
    IF name \in DOMAIN files /\ ~HasMarker(files[name])
    THEN WriteFile(Rename(files, name, Legacy(name)), name, content)
    ELSE WriteFile(files, name, content)

\* Install: MkdirAll, migration from another configured hooks path, the two
\* managed scripts, core.hooksPath.
Installed(fs) ==
    LET migrated == IF fs.hooksPath \notin {Unset, HooksDir}
                    THEN MigrateExistingHooks(fs.old, fs.files) ELSE fs.files
        withCommit == InstallHook(migrated, "post-commit", postCommitHook)
        withMerge == InstallHook(withCommit, "post-merge", postMergeHook)
    IN  [fs EXCEPT !.exists = TRUE, !.files = withMerge, !.hooksPath = HooksDir]

\* Variant: a managed script is removed only when a .legacy sibling takes its place.
UninstallHookOnlyRestore(files, name) ==
    IF name \in DOMAIN files /\ HasMarker(files[name]) /\ Legacy(name) \in DOMAIN files
    THEN Rename(Remove(files, name), Legacy(name), name)
    ELSE files

\* One pass of Uninstall's loop: a managed script is removed and its .legacy
\* sibling, if any, renamed back.
UninstallHook(files, name) ==
    IF name \in DOMAIN files /\ HasMarker(files[name])
    THEN IF Legacy(name) \in DOMAIN files
         THEN Rename(Remove(files, name), Legacy(name), name)
         ELSE Remove(files, name)
    ELSE files

\* Uninstall: the loop over post-commit and post-merge, then the empty-directory
\* check (os.ReadDir fails on a missing directory: nothing more is done).
Uninstalled(fs) ==
    LET files == UninstallHook(UninstallHook(fs.files, "post-commit"), "post-merge")
    IN  IF fs.exists /\ DOMAIN files = {}
        THEN [fs EXCEPT !.exists = FALSE, !.files = NoFiles, !.hooksPath = Unset]
        ELSE [fs EXCEPT !.files = files]

\* anchorman hooks install
Install ==
    /\ Len(hookhist.ops) < MaxOps
    /\ hookfs' = Installed(hookfs)
    /\ hookhist' = [hookhist EXCEPT !.ops = Append(@, "install")]
    /\ UNCHANGED <<repos, commits, tasks, projects, companies, seq, procs, last, ui>>

\* anchorman hooks uninstall
Uninstall ==
    /\ Len(hookhist.ops) < MaxOps
    /\ hookfs' = Uninstalled(hookfs)
    /\ hookhist' = [hookhist EXCEPT !.ops = Append(@, "uninstall")]
    /\ UNCHANGED <<repos, commits, tasks, projects, companies, seq, procs, last, ui>>

\* ------------------------------------------------- the managed hook script
\* What the script has run of its .legacy sibling: nothing yet.
NoRun == [script |-> "", args |-> << >>]

\* git passes no argument to post-commit and the squash flag to post-merge.
HookArgs(name) == IF name = "post-commit" THEN {<< >>} ELSE {<<"0">>, <<"1">>}

\* Variant: the script runs anchorman ingest in the foreground.
IngestInForeground == FALSE

\* The trailing & of "anchorman ingest 2>/dev/null &".
IngestInBackground == TRUE

\* git runs core.hooksPath/<name> "$@" in the working copy at path, whose HEAD
\* is h; x tells whether the .legacy sibling, if there is one, is executable.
HookFire(name, args, path, h, v, x) ==
    /\ hookfs.exists /\ hookfs.hooksPath = HooksDir
    /\ name \in DOMAIN hookfs.files /\ HasMarker(hookfs.files[name])
    /\ \A pr \in Running : pr.kind # "hook"
    /\ procs' = procs (+) SetToBag({[kind |-> "hook", pc |-> "hookLegacy",
                       path |-> path, arg |-> [name |-> name, args |-> args, x |-> x],
                       h |-> h, v |-> v, repeat |-> FALSE, ran |-> NoRun]})
    /\ UNCHANGED <<repos, commits, tasks, projects, seq, last>>
    /\ UNCHANGED <<companies, hookvars, ui>>

\* if [ -x "$0.legacy" ]; then "$0.legacy" "$@"; fi
HookLegacy(pr) ==
    /\ pr.kind = "hook" /\ pr.pc = "hookLegacy"
    /\ LET legacy == Legacy(pr.arg.name)
       IN  Goto(pr, [pr EXCEPT !.pc = "hookIngest",
                       !.ran = IF legacy \in DOMAIN hookfs.files /\ pr.arg.x
                               THEN [script |-> hookfs.files[legacy], args |-> pr.arg.args]
                               ELSE NoRun])
    /\ UNCHANGED <<repos, commits, tasks, projects, seq, last>>
    /\ UNCHANGED <<companies, hookvars, ui>>

\* anchorman ingest 2>/dev/null &
HookIngest(pr) ==
    /\ pr.kind = "hook" /\ pr.pc = "hookIngest"
    /\ BagCardinality(Others(pr)) < MaxProcs
    /\ IngestStartFrom(Others(pr) (+) SetToBag({[pr EXCEPT !.pc = "hookExit"]}),
                       TRUE, pr.path, pr.h, pr.v)

\* The script ends; its exit status is the one of its last command, and a
\* command started with & has status 0.  A foreground command is waited for.
HookExit(pr) ==
    /\ pr.kind = "hook" /\ pr.pc = "hookExit"
    /\ LET ingesting == \E other \in BagToSet(Others(pr)) : other.kind = "ingest"
           status == IF IngestInBackground THEN 0
                     ELSE IF last.kind = "ingest" /\ last.err # "" THEN 1 ELSE 0
       IN  /\ IngestInBackground \/ ~ingesting
           /\ Return(pr, [status |-> status, ran |-> pr.ran, ingesting |-> ingesting], "")
    /\ UNCHANGED <<repos, commits, tasks, projects, seq>>
    /\ UNCHANGED <<companies, hookvars, ui>>

\* ------------------------------------------------------- Process screen
\* NewProcess: the zero value of the struct.  err says whether p.err is set;
\* unprocessed, commitsToProcess and tasksCreated are counts.  History:
\* errFrom names the message that set p.err.
NewProcess ==
    [of |-> "process", mode |-> "selectRange", loading |-> FALSE, err |-> FALSE,
     errFrom |-> "", rangeCursor |-> 0, selectedRange |-> 0, unprocessed |-> 0,
     commitsToProcess |-> 0, tasksCreated |-> 0]

processRangeLabels == <<"All unprocessed", "Last 7 days", "Last 30 days">>

\* What a handler returns: the model it leaves and the command it starts.
Handled(p, cmd) == [model |-> p, cmd |-> cmd]

\* Process.Init
ProcessInit(p) ==
    Handled([p EXCEPT !.mode = "selectRange", !.loading = TRUE, !.err = FALSE,
                      !.errFrom = "", !.tasksCreated = 0],
            [cmd |-> "loadCount"])

handleRangeKey(p, key) ==
    CASE key = "up" ->
            Handled([p EXCEPT !.rangeCursor = IF @ > 0 THEN @ - 1 ELSE @], NoCmd)
      [] key = "down" ->
            Handled([p EXCEPT !.rangeCursor = IF @ < Len(processRangeLabels) - 1 THEN @ + 1 ELSE @],
                    NoCmd)
      [] key = "enter" ->
            Handled([p EXCEPT !.selectedRange = p.rangeCursor, !.loading = TRUE],
                    [cmd |-> "loadCommits"])
      [] key \in {"q", "esc"} -> Handled(p, Navigate("dashboard"))
      [] OTHER -> Handled(p, NoCmd)

handleConfirmKey(p, key) ==
    CASE key \in {"enter", "y"} ->
            Handled([p EXCEPT !.mode = "processing", !.loading = TRUE],
                    [cmd |-> "runProcessing"])
      [] key \in {"esc", "n"} -> Handled([p EXCEPT !.mode = "selectRange"], NoCmd)
      [] key = "q" -> Handled(p, Navigate("dashboard"))
      [] OTHER -> Handled(p, NoCmd)

handleCompleteKey(p, key) ==
    CASE key \in {"enter", "q", "esc"} -> Handled(p, Navigate("dashboard"))
      [] OTHER -> Handled(p, NoCmd)

\* Process.handleKey: the switch on p.mode has no case for processModeProcessing.
handleKey(p, key) ==
    CASE p.mode = "selectRange" -> handleRangeKey(p, key)
      [] p.mode = "confirm" -> handleConfirmKey(p, key)
      [] p.mode = "complete" -> handleCompleteKey(p, key)
      [] OTHER -> Handled(p, NoCmd)

\* The messages the commands of the screen produce: a count or a length, and
\* whether the command failed.
ProcessMsgs(cmd) ==
    {[type |-> cmd.cmd, n |-> n, err |-> FALSE] : n \in 0..MaxCount}
    \cup {[type |-> cmd.cmd, n |-> 0, err |-> TRUE]}

\* Process.Update for processCountMsg, processCommitsMsg, processCompleteMsg.
ProcessUpdate(p, msg) ==
    LET q == [p EXCEPT !.loading = FALSE, !.err = msg.err,
                       !.errFrom = IF msg.err THEN msg.type ELSE ""]
    IN  CASE msg.type = "loadCount" -> [q EXCEPT !.unprocessed = msg.n]
          [] msg.type = "loadCommits" ->
                [q EXCEPT !.commitsToProcess = msg.n, !.mode = "confirm"]
          [] msg.type = "runProcessing" ->
                [q EXCEPT !.tasksCreated = msg.n,
                          !.mode = IF msg.err THEN @ ELSE "complete"]

\* What Process.View shows: the processing or loading line, the error with
\* "[enter] Try again  [q] Back", or the view of the mode.
ProcessView(p) ==
    IF p.loading THEN "loading"
    ELSE IF p.err THEN "error"
    ELSE p.mode

\* The program is running and takes another key while fewer than MaxInflight
\* messages are due.
TakesKey == ui.screen # "quit" /\ BagCardinality(ui.inflight) < MaxInflight

\* The command cmd was started: its message is due.
Started(cmd) == IF cmd = NoCmd THEN ui.inflight ELSE ui.inflight (+) SetToBag({cmd})

ScreenOnly == UNCHANGED <<repos, commits, tasks, projects, companies, seq, procs, last,
                          hookvars>>

\* App.Update for "ctrl+c": tea.Quit.
CtrlC ==
    /\ ui.screen # "quit"
    /\ ui' = [ui EXCEPT !.screen = "quit", !.inflight = EmptyBag]
    /\ ScreenOnly

\* Dashboard.handleKey in normal mode: "p" and "o" navigate.
DashboardKey(key) ==
    /\ TakesKey
    /\ ui.screen = "dashboard"
    /\ ui' = [ui EXCEPT !.inflight =
                Started(CASE key = "p" -> Navigate("process")
                          [] key = "c" -> Navigate("companies")
                          [] key = "o" -> Navigate("repos")
                          [] OTHER -> NoCmd)]
    /\ ScreenOnly

\* App.Update for a key while the Process screen is shown.
ProcessKey(key) ==
    /\ TakesKey
    /\ ui.screen = "process"
    /\ LET h == handleKey(ui.model, key)
       IN  ui' = [ui EXCEPT !.model = h.model, !.inflight = Started(h.cmd)]
    /\ ScreenOnly

\* App.handleNavigation for "process" and "dashboard".
ProcessNavigate(cmd) ==
    /\ ui.screen # "quit"
    /\ cmd \in BagToSet(ui.inflight)
    /\ cmd.cmd = "Navigate"
    /\ cmd.screen \in {"process", "dashboard"}
    /\ LET rest == ui.inflight (-) SetToBag({cmd})
           h == ProcessInit(IF ui.model.of = "process" THEN ui.model ELSE NewProcess)
       IN  IF cmd.screen = "process"
           THEN ui' = [screen |-> "process", model |-> h.model,
                       inflight |-> rest (+) SetToBag({h.cmd})]
           ELSE ui' = [ui EXCEPT !.screen = "dashboard", !.inflight = rest]
    /\ ScreenOnly

\* A command of the Process screen is done: App.Update hands its message to the
\* screen shown (the dashboard ignores it).
ProcessDeliver(cmd, msg) ==
    /\ ui.screen # "quit"
    /\ cmd \in BagToSet(ui.inflight)
    /\ cmd.cmd \in {"loadCount", "loadCommits", "runProcessing"}
    /\ msg \in ProcessMsgs(cmd)
    /\ ui' = [ui EXCEPT !.inflight = @ (-) SetToBag({cmd}),
                        !.model = IF ui.screen = "process"
                                  THEN ProcessUpdate(@, msg) ELSE @]
    /\ ScreenOnly

\* --------------------------------------------------------- Repos screen
\* NavigateWithProject(screen, projectID)
NavigateWithProject(screen, projectID) ==
    [cmd |-> "Navigate", screen |-> screen, project |-> projectID]

\* NewRepos: the zero value of the struct.  repos and projects are the lists
\* shown; cursor and projectCursor count from 0.  r.err and r.message only
\* feed View and are left out.
NewRepos ==
    [of |-> "repos", repos |-> << >>, projects |-> << >>, projectFilter |-> NoId,
     cursor |-> 0, projectCursor |-> 0, mode |-> "list", showOrphans |-> FALSE,
     loading |-> FALSE]

\* The rows S as the list a query returns them in: by ascending key.
InOrder(S, Key(_)) ==
    CHOOSE s \in [1..Cardinality(S) -> S] :
        \A i, j \in 1..Cardinality(S) : i < j => Key(s[i]) < Key(s[j])

\* RepoRepo.GetAllWithStats: ORDER BY c.name, p.name, r.path (rows without a
\* project first), and ProjectRepo.GetAllWithStats.
GetAllWithStats ==
    [repos |-> InOrder({[ID |-> r.id, ProjectID |-> r.project] : r \in repos},
                       LAMBDA row : row.ProjectID * (seq.repos + 1) + row.ID),
     projects |-> InOrder({p.id : p \in projects}, LAMBDA id : id)]

\* What a key handler of the screen returns: the model it leaves, the command
\* it starts and the statement it ran on the database.  The statement "panic"
\* stands for an index out of range.
NoStmt == [op |-> "none"]
Ran(r, cmd, stmt) == [model |-> r, cmd |-> cmd, stmt |-> stmt]

\* Repos.Init
ReposInit(r) == Ran([r EXCEPT !.loading = TRUE, !.mode = "list"], [cmd |-> "loadData"], NoStmt)

\* Go's s[i] for a slice s and an index i counted from 0.
InRange(s, i) == i >= 0 /\ i < Len(s)

\* The rows of s whose project is projectID, in the order of s.
RECURSIVE OfProject(_, _)
OfProject(s, projectID) ==
    IF s = << >> THEN << >>
    ELSE (IF Head(s).ProjectID = projectID THEN <<Head(s)>> ELSE << >>)
         \o OfProject(Tail(s), projectID)

\* Repos.filterRepos
filterRepos(r) ==
    LET kept == IF r.projectFilter # NoId
                THEN OfProject(r.repos, r.projectFilter)
                ELSE IF r.showOrphans
                THEN OfProject(r.repos, NoId)
                ELSE r.repos
    IN  [r EXCEPT !.repos = kept,
                  !.cursor = IF @ >= Len(kept)
                             THEN (IF Len(kept) - 1 > 0 THEN Len(kept) - 1 ELSE 0)
                             ELSE @]

\* Repos.Update for reposDataMsg (after an error both lists are nil).
ReposUpdate(r, msg) ==
    filterRepos([r EXCEPT !.loading = FALSE, !.repos = msg.repos,
                          !.projects = msg.projects])

handleListKey(r, key) ==
    CASE key = "up" -> Ran([r EXCEPT !.cursor = IF @ > 0 THEN @ - 1 ELSE @], NoCmd, NoStmt)
      [] key = "down" ->
            Ran([r EXCEPT !.cursor = IF @ < Len(r.repos) - 1 THEN @ + 1 ELSE @],
                NoCmd, NoStmt)
      [] key = "a" ->
            Ran(IF Len(r.repos) > 0 /\ Len(r.projects) > 0
                THEN [r EXCEPT !.mode = "assign", !.projectCursor = 0] ELSE r,
                NoCmd, NoStmt)
      [] key = "d" ->
            Ran(IF Len(r.repos) > 0 THEN [r EXCEPT !.mode = "delete"] ELSE r,
                NoCmd, NoStmt)
      [] key = "f" ->
            Ran([r EXCEPT !.showOrphans = ~@], [cmd |-> "loadData"], NoStmt)
      [] key \in {"q", "esc"} ->
            Ran(r, IF r.projectFilter # NoId THEN Navigate("projects")
                   ELSE Navigate("dashboard"), NoStmt)
      [] OTHER -> Ran(r, NoCmd, NoStmt)

handleAssignKey(r, key) ==
    CASE key = "up" ->
            Ran([r EXCEPT !.projectCursor = IF @ > 0 THEN @ - 1 ELSE @], NoCmd, NoStmt)
      [] key = "down" ->
            Ran([r EXCEPT !.projectCursor = IF @ < Len(r.projects) - 1 THEN @ + 1 ELSE @],
                NoCmd, NoStmt)
      [] key = "enter" ->
            IF InRange(r.projects, r.projectCursor) /\ InRange(r.repos, r.cursor)
            THEN Ran([r EXCEPT !.mode = "list"], [cmd |-> "loadData"],
                     [op |-> "SetProject", id |-> r.repos[r.cursor + 1].ID,
                      project |-> r.projects[r.projectCursor + 1]])
            ELSE Ran(r, NoCmd, [op |-> "panic"])
      [] key = "esc" -> Ran([r EXCEPT !.mode = "list"], NoCmd, NoStmt)
      [] OTHER -> Ran(r, NoCmd, NoStmt)

handleDeleteKey(r, key) ==
    CASE key \in {"y", "Y"} ->
            IF InRange(r.repos, r.cursor)
            THEN Ran([r EXCEPT !.mode = "list"], [cmd |-> "loadData"],
                     [op |-> "Delete", id |-> r.repos[r.cursor + 1].ID])
            ELSE Ran(r, NoCmd, [op |-> "panic"])
      [] key \in {"n", "N", "esc"} -> Ran([r EXCEPT !.mode = "list"], NoCmd, NoStmt)
      [] OTHER -> Ran(r, NoCmd, NoStmt)

\* Repos.handleKey
ReposHandleKey(r, key) ==
    CASE r.mode = "list" -> handleListKey(r, key)
      [] r.mode = "assign" -> handleAssignKey(r, key)
      [] r.mode = "delete" -> handleDeleteKey(r, key)

\* App.Update for a key while the Repos screen is shown: the handler, with
\* RepoRepo.SetProject or RepoRepo.Delete run inside it; an index out of
\* range ends the program.
ReposKey(key) ==
    /\ TakesKey
    /\ ui.screen = "repos"
    /\ LET h == ReposHandleKey(ui.model, key)
       IN  /\ ui' = IF h.stmt.op = "panic"
                    THEN [ui EXCEPT !.screen = "panic", !.inflight = EmptyBag]
                    ELSE [ui EXCEPT !.model = h.model, !.inflight = Started(h.cmd)]
           /\ repos' = CASE h.stmt.op = "SetProject" ->
                            {IF x.id = h.stmt.id
                             THEN [x EXCEPT !.project = h.stmt.project] ELSE x :
                                x \in repos}
                         [] h.stmt.op = "Delete" -> {x \in repos : x.id # h.stmt.id}
                         [] OTHER -> repos
           /\ commits' = IF h.stmt.op = "Delete"
                         THEN CommitsOnRepoDelete(h.stmt.id) ELSE commits
    /\ UNCHANGED <<tasks, projects, companies, seq, procs, last, hookvars>>

\* Companies.handleListKey "enter": to the projects of a company.
CompaniesEnter(companyID) ==
    /\ TakesKey
    /\ ui.screen = "companies"
    /\ companyID \in companies
    /\ ui' = [ui EXCEPT !.inflight = Started([cmd |-> "Navigate", screen |-> "projects"])]
    /\ ScreenOnly

\* Projects.handleListKey "enter": to the repositories of a project.
ProjectsEnter(projectID) ==
    /\ TakesKey
    /\ ui.screen = "projects"
    /\ \E p \in projects : p.id = projectID
    /\ ui' = [ui EXCEPT !.inflight = Started(NavigateWithProject("repos", projectID))]
    /\ ScreenOnly

\* App.handleNavigation for "repos" (SetProjectFilter, Init), "projects",
\* "companies" and "dashboard".
ReposNavigate(cmd) ==
    /\ ui.screen \notin {"quit", "panic"}
    /\ cmd \in BagToSet(ui.inflight)
    /\ cmd.cmd = "Navigate"
    /\ cmd.screen \in {"repos", "projects", "companies", "dashboard"}
    /\ LET rest == ui.inflight (-) SetToBag({cmd})
           r == IF ui.model.of = "repos" THEN ui.model ELSE NewRepos
           filter == IF "project" \in DOMAIN cmd THEN cmd.project ELSE NoId
           h == ReposInit([r EXCEPT !.projectFilter = filter])
       IN  IF cmd.screen = "repos"
           THEN ui' = [screen |-> "repos", model |-> h.model,
                       inflight |-> rest (+) SetToBag({h.cmd})]
           ELSE ui' = [ui EXCEPT !.screen = cmd.screen, !.inflight = rest]
    /\ ScreenOnly

\* Repos.loadData runs: it reads both tables, or fails.
ReposLoad(cmd, ok) ==
    /\ ui.screen \notin {"quit", "panic"}
    /\ cmd \in BagToSet(ui.inflight)
    /\ cmd.cmd = "loadData"
    /\ LET msg == IF ok
                  THEN [cmd |-> "reposDataMsg", repos |-> GetAllWithStats.repos,
                        projects |-> GetAllWithStats.projects]
                  ELSE [cmd |-> "reposDataMsg", repos |-> << >>, projects |-> << >>]
       IN  ui' = [ui EXCEPT !.inflight = (@ (-) SetToBag({cmd})) (+) SetToBag({msg})]
    /\ ScreenOnly

\* App.Update hands reposDataMsg to the screen shown (another screen ignores it).
ReposDeliver(msg) ==
    /\ ui.screen \notin {"quit", "panic"}
    /\ msg \in BagToSet(ui.inflight)
    /\ msg.cmd = "reposDataMsg"
    /\ ui' = [ui EXCEPT !.inflight = @ (-) SetToBag({msg}),
                        !.model = IF ui.screen = "repos" THEN ReposUpdate(@, msg) ELSE @]
    /\ ScreenOnly

\* ------------------------------------------------------------- the actions
\* The hook fires in some working copy (or outside one) whose HEAD is h.
IngestBeginIn(paths, hashes, inRepos) ==
    \E inRepo \in inRepos, path \in paths, h \in hashes, v \in Versions :
        IngestStart(inRepo, path, h, v)

IngestBegin == IngestBeginIn(RepoPaths, Hashes, BOOLEAN)

IngestStep ==
    \/ \E pr \in Running : IngestGetRepo(pr)
    \/ \E pr \in Running : IngestCreateRepo(pr)
    \/ \E pr \in Running : IngestLookup(pr)
    \/ \E pr \in Running : IngestInsert(pr)

\* anchorman import [count|date] [-f]: the CLI takes a count or a date, never both.
ImportBeginIn(paths, counts, sinces, forces, inRepos) ==
    \E inRepo \in inRepos, path \in paths, count \in counts, since \in sinces,
       force \in forces, v \in Versions :
        /\ count > 0 => since = 0
        /\ ImportStart(inRepo, path, count, since, force, v)

ImportBegin == ImportBeginIn(RepoPaths, 0..Len(Hist), {0, Len(Hist) + 1}, BOOLEAN, BOOLEAN)

\* The steps an Import without -f can take.
ImportStepNoForce ==
    \/ \E pr \in Running : ImportGetRepo(pr)
    \/ \E pr \in Running : ImportCreateRepo(pr)
    \/ \E pr \in Running : ImportLookup(pr)
    \/ \E pr \in Running : ImportInsert(pr)

ImportStep ==
    \/ ImportStepNoForce
    \/ \E pr \in Running : ImportDeleteTasks(pr)
    \/ \E pr \in Running : ImportUpdate(pr)

DeriveBegin == DeriveLoad

\* The groups a derivation run still has to handle.
GroupsOf(pr) == IF pr.kind = "derive" THEN pr.groups ELSE {}

DeriveStep ==
    \/ \E pr \in Running : DeriveCancel(pr)
    \/ \E pr \in Running, agentType \in AgentTypes : DeriveGroup(pr, agentType)
    \/ \E pr \in Running, ok \in BOOLEAN, n \in 0..MaxLines :
           \E g \in GroupsOf(pr) : DeriveAgent(pr, g, ok, n)
    \/ \E pr \in Running, ok \in BOOLEAN : DeriveCreateTask(pr, ok)
    \/ \E pr \in Running, ok \in BOOLEAN : DeriveMark(pr, ok)

Screens ==
    \/ CreateProject
    \/ \E r \in repos, p \in projects : SetProject(r.id, p.id)

\* The working copy under a scan path, and its HEAD.
Tracked == {path \in RepoPaths : IsPathTracked(path)}
HeadHash == {Hist[Len(Hist)]}

\* Invocations overlap freely; every one of them is in the tracked working copy
\* and about its HEAD commit (ingest; import 1; import 1 -f).
Next ==
    \/ IngestBeginIn(Tracked, HeadHash, {TRUE})
    \/ IngestStep
    \/ ImportBeginIn(Tracked, {1}, {0}, BOOLEAN, {TRUE})
    \/ ImportStep
    \/ DeriveBegin
    \/ DeriveStep
    \/ Screens

Spec == Init /\ [][Next]_vars

\* The hook and the import command alone, overlapping freely in the tracked
\* working copy (post-commit and post-merge hooks, retries, import with and
\* without -f).
NextRace ==
    \/ IngestBeginIn(Tracked, HeadHash, {TRUE})
    \/ IngestStep
    \/ ImportBeginIn(Tracked, {1}, {0}, BOOLEAN, {TRUE})
    \/ ImportStep

SpecRace == Init /\ [][NextRace]_vars

\* One invocation at a time: nothing starts, and no screen writes, while an
\* invocation is in flight.  The invocations are in the tracked working copy.
Quiet == procs = EmptyBag

NextSeq ==
    \/ Quiet /\ IngestBeginIn(Tracked, Hashes, BOOLEAN)
    \/ IngestStep
    \/ Quiet /\ ImportBeginIn(Tracked, {0, 1}, {0, Len(Hist) + 1}, BOOLEAN, BOOLEAN)
    \/ ImportStep
    \/ Quiet /\ DeriveBegin
    \/ DeriveStep
    \/ Quiet /\ Screens

SpecSeq == Init /\ [][NextSeq]_vars

\* Two working copies, one of them outside the scan paths, each imported up to
\* its HEAD (without -f), and derivation runs; one invocation at a time.
NextOrphan ==
    \/ Quiet /\ ImportBeginIn(RepoPaths, {1}, {0}, {FALSE}, {TRUE})
    \/ ImportStepNoForce
    \/ Quiet /\ DeriveBegin
    \/ DeriveStep
    \/ Quiet /\ Screens

SpecOrphan == Init /\ [][NextOrphan]_vars

\* The gate alone: cfg.IsPathTracked asked about any clean absolute path of up
\* to MaxDepth segments, under any set of configured roots.
Segments == {"a", "b", "bc", "c", "x", ".cfg"}
GatePaths == UNION {[1..n -> Segments] : n \in 0..MaxDepth}
RootSets == SUBSET {<<"a", "b">>, <<"x">>, <<>>}

GateAsk(scanPaths, repoPath) ==
    /\ last' = [kind |-> "gate", roots |-> scanPaths, path |-> repoPath,
                res |-> IsPathTrackedIn(scanPaths, repoPath)]
    /\ UNCHANGED <<repos, commits, tasks, projects, seq, procs>>
    /\ UNCHANGED <<companies, hookvars, ui>>

NextGate == \E scanPaths \in RootSets, repoPath \in GatePaths : GateAsk(scanPaths, repoPath)

SpecGate == Init /\ [][NextGate]_vars

\* The hooks commands alone, from any layout of the two directories and any
\* value of core.hooksPath.  A hook name of the managed directory holds a
\* foreign script or the managed one; other names hold foreign scripts.
FilesOver(names) ==
    UNION {{f \in [S -> ForeignScripts \cup {postCommitHook, postMergeHook}] :
                \A n \in S : HasMarker(f[n]) =>
                    f[n] = (IF n = "post-commit" THEN postCommitHook ELSE postMergeHook)
                    /\ n \in {"post-commit", "post-merge"}} :
           S \in SUBSET names}

\* The directory of another hooks path holds foreign scripts only.
ForeignFilesOver(names) == UNION {[S -> ForeignScripts] : S \in SUBSET names}

Layouts ==
    {NoHooks} \cup
    {[exists |-> TRUE, files |-> f, hooksPath |-> p, old |-> o] :
        f \in FilesOver({"post-commit", "post-merge", "post-commit.legacy", "pre-push"}),
        p \in {Unset, HooksDir, OtherDir},
        o \in ForeignFilesOver({"post-commit", "pre-push"})}
    \cup
    {[exists |-> FALSE, files |-> NoFiles, hooksPath |-> p, old |-> o] :
        p \in {Unset, HooksDir, OtherDir},
        o \in ForeignFilesOver({"post-commit", "pre-push"})}

InitHooks ==
    /\ InitStore
    /\ hookfs \in Layouts
    /\ hookhist = [pre |-> hookfs, ops |-> << >>]

NextHooks ==
    \/ Install
    \/ Uninstall

SpecHooks == InitHooks /\ [][NextHooks]_vars

\* Two working copies, each imported up to its HEAD (without -f) and assigned to
\* a project of its own or to the same one, and derivation runs over one or
\* several groups; one invocation at a time.
NextGroups ==
    \/ Quiet /\ ImportBeginIn(RepoPaths, {1}, {0}, {FALSE}, {TRUE})
    \/ ImportStepNoForce
    \/ Quiet /\ DeriveBegin
    \/ DeriveStep
    \/ Quiet /\ CreateProjectUpTo(MaxGroups)
    \/ Quiet /\ \E r \in repos, p \in projects : SetProject(r.id, p.id)

SpecGroups == Init /\ [][NextGroups]_vars

\* The managed scripts at work: the hooks are installed, over nothing or over a
\* directory that held a post-commit script of someone else; git operations
\* fire them while anchorman ingest is also run by hand.
TriggerLayouts ==
    {NoHooks,
     [exists |-> TRUE, files |-> ("post-commit" :> "foreign 1"),
      hooksPath |-> HooksDir, old |-> NoFiles]}

InitTrigger ==
    /\ InitStore
    /\ \E l \in TriggerLayouts :
        /\ hookfs = Installed(l)
        /\ hookhist = [pre |-> l, ops |-> <<"install">>]

HookBegin ==
    \E name \in {"post-commit", "post-merge"}, path \in RepoPaths, h \in HeadHash,
       v \in Versions, x \in BOOLEAN :
        \E args \in HookArgs(name) : HookFire(name, args, path, h, v, x)

HookStep ==
    \/ \E pr \in Running : HookLegacy(pr)
    \/ \E pr \in Running : HookIngest(pr)
    \/ \E pr \in Running : HookExit(pr)

NextTrigger ==
    \/ HookBegin
    \/ HookStep
    \/ IngestBeginIn(Tracked, HeadHash, {TRUE})
    \/ IngestStep

SpecTrigger == InitTrigger /\ [][NextTrigger]_vars

\* The hook and the import command (without -f) in both working copies, the one
\* under a scan path and the one outside every scan path; one invocation at a
\* time.
NextUntracked ==
    \/ Quiet /\ IngestBeginIn(RepoPaths, Hashes, {TRUE})
    \/ IngestStep
    \/ Quiet /\ ImportBeginIn(RepoPaths, 0..Len(Hist), {0}, {FALSE}, {TRUE})
    \/ ImportStepNoForce

SpecUntracked == Init /\ [][NextUntracked]_vars

\* The screens with their deletions, between Imports (without -f) of the HEAD
\* of two working copies and derivation runs; one invocation at a time.
Deletions ==
    \/ \E r \in repos : DeleteRepo(r.id)
    \/ \E p \in projects : DeleteProject(p.id)
    \/ \E id \in companies : DeleteCompany(id)

CompanyScreens ==
    \/ CreateCompany
    \/ \E p \in projects, id \in companies : SetCompany(p.id, id)

\* The steps of a derivation run that is confirmed and meets no error: a known
\* agent, answers of one task line, no persistence error.
DeriveStepNoError ==
    \/ \E pr \in Running : DeriveGroup(pr, "codex")
    \/ \E pr \in Running : \E g \in GroupsOf(pr) : DeriveAgent(pr, g, TRUE, 1)
    \/ \E pr \in Running : DeriveCreateTask(pr, TRUE)
    \/ \E pr \in Running : DeriveMark(pr, TRUE)

NextDelete ==
    \/ Quiet /\ seq.repos < MaxRepoRows /\ ImportBeginIn(RepoPaths, {1}, {0}, {FALSE}, {TRUE})
    \/ ImportStepNoForce
    \/ Quiet /\ DeriveBegin
    \/ DeriveStepNoError
    \/ Quiet /\ CreateProjectUpTo(MaxGroups)
    \/ Quiet /\ \E r \in repos, p \in projects : SetProject(r.id, p.id)
    \/ Quiet /\ CompanyScreens
    \/ Quiet /\ Deletions

SpecDelete == Init /\ [][NextDelete]_vars

\* The response parser alone, on one task line with any leading token.
ParseAsk(token) ==
    /\ last' = [kind |-> "parse", token |-> token, res |-> EstimatedHours(token)]
    /\ UNCHANGED <<repos, commits, tasks, projects, seq, procs>>
    /\ UNCHANGED <<companies, hookvars, ui>>

NextParse == \E token \in Tokens : ParseAsk(token)

SpecParse == Init /\ [][NextParse]_vars

\* Hooks alone: two of them may fire at once in the tracked working copy, each
\* about one of the commits of its history.
NextIngests ==
    \/ IngestBeginIn(Tracked, Hashes, {TRUE})
    \/ IngestStep

SpecIngests == Init /\ [][NextIngests]_vars

\* The response parser alone, on the answers of an agent: up to
\* MaxResponseLines lines, each made of optional white space, an optional
\* bullet, an optional hour token and a text.
ResponseLines ==
    LET Leads == {<< >>, <<" ">>}
        Bullets == {<< >>, <<"-", " ">>, <<"*", " ">>, <<"-">>}
        TimeTokens == {<< >>, <<"[", "1", ".", "5", "h", "]", " ">>, <<"[", "h", "]">>}
        Texts == {<< >>, <<"a", "b">>, <<"a", "b", "c", "d", "e">>, <<"é", "é", "é">>}
    IN  {a \o b \o c \o d :
            a \in Leads, b \in Bullets, c \in TimeTokens, d \in Texts}

\* strings.Join(lines, "\n")
RECURSIVE Join(_)
Join(lines) ==
    IF Len(lines) = 1 THEN lines[1]
    ELSE lines[1] \o <<"\n">> \o Join(Tail(lines))

Responses ==
    UNION {{Join(lines) : lines \in [1..n -> ResponseLines]} : n \in 1..MaxResponseLines}

ParseResponseAsk(response) ==
    /\ last = NoOp
    /\ last' = [kind |-> "parsed", response |-> response,
                res |-> parseResponse(response)]
    /\ UNCHANGED <<repos, commits, tasks, projects, seq, procs>>
    /\ UNCHANGED <<companies, hookvars, ui>>

NextResponse == \E response \in Responses : ParseResponseAsk(response)

SpecResponse == Init /\ [][NextResponse]_vars

\* Two Process screens (two anchorman programs on one database) may run
\* their derivations at the same time; nothing fails and nothing is reimported
\* with force.
NextOverlap ==
    \/ Quiet /\ ImportBeginIn(Tracked, {1}, {0}, {FALSE}, {TRUE})
    \/ ImportStepNoForce
    \/ DeriveBegin
    \/ DeriveStepNoError
    \/ Quiet /\ Screens

SpecOverlap == Init /\ [][NextOverlap]_vars

\* The terminal program on the dashboard and the Process screen.
ProcessKeys == {"enter", "y", "n", "esc", "q", "up", "down"}

NextProcessScreen ==
    \/ CtrlC
    \/ DashboardKey("p")
    \/ \E key \in ProcessKeys : ProcessKey(key)
    \/ \E cmd \in BagToSet(ui.inflight) : ProcessNavigate(cmd)
    \/ \E cmd \in BagToSet(ui.inflight) : \E msg \in ProcessMsgs(cmd) :
            ProcessDeliver(cmd, msg)

SpecProcessScreen == Init /\ [][NextProcessScreen]_vars

\* The terminal program on the dashboard, the Companies and Projects screens
\* (entered only to pass through: their lists are the tables themselves) and
\* the Repos screen, over a database with one company, one project and up to
\* two repositories, each assigned or not.
RepoTables ==
    {S \in SUBSET {[id |-> id, path |-> path, project |-> project] :
                      id \in 1..2, path \in RepoPaths, project \in {NoId, 1}} :
        /\ S # {}
        /\ \A x \in S : x.path = (IF x.id = 1 THEN <<"a", "b", "r1">> ELSE <<"x">>)
        /\ \A x, y \in S : x.id = y.id => x = y}

InitReposScreen ==
    /\ repos \in RepoTables
    /\ commits = {}
    /\ tasks = {}
    /\ projects = {[id |-> 1, company |-> 1, left |-> NoId]}
    /\ companies = {1}
    /\ seq = [repos |-> 2, commits |-> 0, tasks |-> 0, projects |-> 1, companies |-> 1]
    /\ procs = EmptyBag
    /\ last = NoOp
    /\ ui = NewApp
    /\ hookfs = NoHooks
    /\ hookhist = [pre |-> NoHooks, ops |-> << >>]

ReposKeys == {"up", "down", "a", "d", "f", "q", "enter", "esc", "y", "n"}

NextReposScreen ==
    \/ CtrlC
    \/ \E key \in {"c", "o"} : DashboardKey(key)
    \/ \E id \in companies : CompaniesEnter(id)
    \/ \E p \in projects : ProjectsEnter(p.id)
    \/ \E key \in ReposKeys : ReposKey(key)
    \/ \E cmd \in BagToSet(ui.inflight) : ReposNavigate(cmd)
    \/ \E cmd \in BagToSet(ui.inflight), ok \in BOOLEAN : ReposLoad(cmd, ok)
    \/ \E msg \in BagToSet(ui.inflight) : ReposDeliver(msg)

SpecReposScreen == InitReposScreen /\ [][NextReposScreen]_vars

\* -------------------------------------------------------------- properties
\* The raw_commits rows of hash in the repository at path.
RowsOf(path, hash) ==
    {c \in commits : c.hash = hash /\ \E r \in repos : r.id = c.repo /\ r.path = path}

\* The result an Import holds after the step: the one it returned, or the one
\* it carries on with (one invocation at a time).
ResAfter ==
    IF procs' = EmptyBag THEN last'.res ELSE (CHOOSE x \in BagToSet(procs') : TRUE).res

\* C1: an Ingest that reports its commit as recorded leaves exactly one row for
\* (repository, hash), and an Ingest of the same HEAD of the same working copy
\* right after it returns without error, skipped, with reason "commit already
\* recorded", still with exactly one row.
C1_IngestTwice ==
    last.kind = "ingest" =>
        /\ (last.err = "" /\ ~last.res.Skipped) =>
                Cardinality(RowsOf(last.path, last.arg.hash)) = 1
        /\ last.repeat =>
                /\ last.err = ""
                /\ last.res = IngestRes(TRUE, "commit already recorded")
                /\ Cardinality(RowsOf(last.path, last.arg.hash)) = 1

\* The second of two Ingests of one HEAD returned, skipped.
C1_Witness ==
    /\ last.kind = "ingest"
    /\ last.repeat
    /\ last.res.SkipReason = "commit already recorded"

\* C2 (as claimed): however Ingest invocations for one (repository, hash)
\* interleave, each of them returns without error, having recorded the commit or
\* skipped it as already recorded.
C2_NoIngestError ==
    (last.kind = "ingest" /\ last.arg.inRepo /\ IsPathTracked(last.path)) =>
        /\ last.err = ""
        /\ last.res \in {IngestRes(FALSE, ""), IngestRes(TRUE, "commit already recorded")}

\* C3: in every reachable state no two raw_commits rows share (repo_id, hash)
\* and no two repos rows share a path.
C3_UniqueRows ==
    /\ \A c, d \in commits : (c.repo = d.repo /\ c.hash = d.hash) => c = d
    /\ \A r, q \in repos : r.path = q.path => r = q

\* Two overlapping inserts of one commit met: the second one was refused.
C3_Witness ==
    /\ last.kind \in {"ingest", "import"}
    /\ last.err = "failed to create commit record"
    /\ commits # {}

\* C4: the force branch of Import on a commit that has a row.  The delete step
\* leaves no task whose source commits contain the row's id and adds the number
\* of tasks it deleted to TasksDeleted; the update step leaves no such task, the
\* row unprocessed with message, author, branch, changed paths and committed_at
\* as freshly extracted, and Updated one higher.
C4_ForcedUpdate ==
    [][\A pr \in Running :
        /\ (pr.kind = "import" /\ pr.pc = "deleteTasks") =>
                /\ \A t \in tasks' : pr.existing.id \notin t.commits
                /\ ResAfter.TasksDeleted = pr.res.TasksDeleted
                        + Cardinality({t \in tasks : pr.existing.id \in t.commits})
        /\ (pr.kind = "import" /\ pr.pc = "update") =>
                /\ \A t \in tasks' : pr.existing.id \notin t.commits
                /\ \E c \in commits' :
                        /\ c.id = pr.existing.id
                        /\ ~c.processed
                        /\ c.info.Message = pr.list[pr.i].Message
                        /\ c.info.Author = pr.list[pr.i].Author
                        /\ c.info.Branch = pr.list[pr.i].Branch
                        /\ c.info.FilesChanged = pr.list[pr.i].FilesChanged
                        /\ c.info.CommittedAt = pr.list[pr.i].CommittedAt
                /\ ResAfter.Updated = pr.res.Updated + 1
                /\ ResAfter.TasksDeleted = pr.res.TasksDeleted]_vars

\* A forced import that rewrote a processed commit and deleted its task returned.
C4_Witness ==
    /\ last.kind = "import"
    /\ last.arg.force
    /\ last.err = ""
    /\ last.res.Updated >= 1
    /\ last.res.TasksDeleted >= 1
    /\ \E c \in commits : c.retracted # {} /\ ~c.processed

\* C5 (as claimed): no task references a commit that was forcibly rewritten after
\* the task's group was read, and no commit is marked processed by a run that
\* read it before its last forced rewrite.
C5_NoStaleReference ==
    /\ \A t \in tasks : ~t.stale
    /\ \A c \in commits : ~(c.processed /\ c.staleMark)

C7_Returned ==
    (last.kind = "import" /\ last.repeat /\ ~last.arg.force) =>
        /\ last.err = ""
        /\ last.res.Imported = 0
        /\ last.res.Skipped = last.res.TotalFound
        /\ last.res.Updated = 0 /\ last.res.TasksDeleted = 0

\* C7: an Import without force that repeats the Import that returned just before
\* it (same working copy, same range) changes no row of repos, raw_commits or
\* tasks in any of its steps and returns without error, Imported = 0 and
\* Skipped = TotalFound.
C7_ImportAgain ==
    [][/\ \A pr \in Running :
            (pr.kind = "import" /\ pr.repeat /\ ~pr.arg.force) =>
                (repos' = repos /\ commits' = commits /\ tasks' = tasks /\ seq' = seq)
       /\ C7_Returned']_vars

\* The whole history was imported again without force and skipped.
C7_Witness ==
    /\ last.kind = "import"
    /\ last.repeat
    /\ ~last.arg.force
    /\ last.res.Skipped = Len(Hist)

\* C8: the grouping step of a derivation run puts a loaded commit into a group
\* only under the project its repository has, never a commit whose repository
\* has none, and it ends in an error only for an unknown agent type; every
\* task a run inserts references exactly the commits of the group it is at, and
\* every commit a run marks processed is in the group it is at.
C8_OrphansLeftOut ==
    [][/\ \A pr \in Running : \A nx \in BagToSet(procs') :
            (/\ pr.kind = "derive" /\ pr.pc = "confirm"
             /\ nx.kind = "derive" /\ nx.pc = "agent" /\ nx.snap = pr.snap
             /\ nx \notin Running)
            => \A g \in nx.groups :
                  /\ g.project # NoId
                  /\ \A id \in g.ids : \E c \in pr.snap : \E r \in repos :
                        c.id = id /\ r.id = c.repo /\ r.project = g.project
       /\ \A pr \in Running :
            (pr.kind = "derive" /\ pr.pc = "confirm" /\ last' # last /\ last'.kind = "derive")
            => last'.err \in {"", "unknown agent type"}
       /\ \A t \in tasks' \ tasks :
            \E pr \in Running : pr.kind = "derive" /\ pr.pc = "persist"
                                /\ t.commits = pr.cur.ids /\ t.project = pr.cur.project
                                /\ pr.cur \in pr.all
       /\ \A c \in commits : \A d \in commits' :
            (c.id = d.id /\ ~c.processed /\ d.processed)
            => \E pr \in Running : pr.kind = "derive" /\ pr.pc = "mark"
                                   /\ c.id \in pr.cur.ids /\ pr.cur \in pr.all]_vars

\* A run that left an orphan's commit out has derived a task for the commit of
\* the other repository and returned; the orphan's commit is still unprocessed.
C8_Witness ==
    /\ last.kind = "derive"
    /\ last.err = ""
    /\ last.res.orphans > 0
    /\ last.res.tasksCreated > 0
    /\ \E c \in commits : \E r \in repos :
            r.id = c.repo /\ r.project = NoId /\ ~c.processed
            /\ \A t \in tasks : c.id \notin t.commits

\* C9: a commit goes from unprocessed to processed only in the mark step of a
\* derivation run that has the commit in the group it is at and has persisted
\* every task line of that group.
C9_MarkAfterAllTasks ==
    [][\A c \in commits : \A d \in commits' :
        (c.id = d.id /\ ~c.processed /\ d.processed)
        => \E pr \in Running :
                /\ pr.kind = "derive" /\ pr.pc = "mark"
                /\ c.id \in pr.cur.ids
                /\ pr.created = pr.lines]_vars

\* A run failed to persist the second task of a group: the first one is stored
\* and the commits of the group are unprocessed.
C9_Witness ==
    /\ last.kind = "derive"
    /\ last.err = "failed to create task"
    /\ \E t \in tasks : \A c \in commits : c.id \in t.commits => ~c.processed

\* C10 (as claimed): in no state is a task of a group stored while a commit of
\* the group is unprocessed.
C10_GroupAtomic ==
    \A t \in tasks : \A c \in commits : c.id \in t.commits => c.processed

\* C11 (as claimed): in no state has a forced update deleted the tasks of a
\* commit while the commit's row is still processed with the data it had.
C11_ForceAtomic ==
    \A pr \in Running :
        (pr.kind = "import" /\ pr.pc = "update" /\ pr.dropped # {})
        => \A c \in commits :
              c.id = pr.existing.id => ~(c.processed /\ c.info = pr.existing.info)

\* C12: no run goes on to persist tasks for, or to mark, a group whose agent
\* call failed; the step in which the agent call fails ends the run with the
\* error "failed to process", stores no task and changes no commit.
C12_AgentFailure ==
    [][/\ \A nx \in BagToSet(procs') :
            (nx.kind = "derive" /\ nx.pc \in {"persist", "mark"}) => nx.agentOk
       /\ \A pr \in Running :
            (pr.kind = "derive" /\ pr.pc = "agent" /\ procs' = Others(pr))
            => /\ last'.kind = "derive"
               /\ last'.err = "failed to process"
               /\ tasks' = tasks
               /\ commits' = commits]_vars

\* A run ended on a failed agent call: the commit of the group is unprocessed and
\* no task references it.
C12_Witness ==
    /\ last.kind = "derive"
    /\ last.err = "failed to process"
    /\ \E c \in commits : \E r \in repos :
            /\ r.id = c.repo /\ r.project # NoId /\ ~c.processed
            /\ \A t \in tasks : c.id \notin t.commits

\* C13 (as claimed): a failed agent call of one group does not keep the run from
\* the other groups: a run ends on a failed agent call only when no other group
\* is left to be summarized.
C13_GroupsIndependent ==
    [][\A pr \in Running :
        (/\ pr.kind = "derive" /\ pr.pc = "agent"
         /\ procs' = Others(pr) /\ last'.err = "failed to process")
        => Cardinality(pr.groups) <= 1]_vars

\* A path is a root or a path-hierarchy descendant of it.
IsUnder(root, path) ==
    Len(path) >= Len(root) /\ SubSeq(path, 1, Len(root)) = root

\* C14 (as claimed): the gate answers true iff the path equals a configured root
\* or is a descendant of one, whatever the names of its segments.
C14_GateIsDescendant ==
    last.kind = "gate" =>
        (last.res <=> \E root \in last.roots : IsUnder(root, last.path))

\* The files of the managed directory that carry the marker.
ManagedLeft(fs) == {n \in DOMAIN fs.files : HasMarker(fs.files[n])}

\* The layout had a foreign script at post-commit in the managed directory.
ForeignPostCommit(fs) ==
    fs.exists /\ "post-commit" \in DOMAIN fs.files /\ ~HasMarker(fs.files["post-commit"])

\* C15 (as claimed): install onto a managed directory with a foreign post-commit,
\* then uninstall: post-commit has its content of before, there is no
\* post-commit.legacy, and core.hooksPath is unset when no managed file is left.
C15_RoundTrip ==
    (hookhist.ops = <<"install", "uninstall">> /\ ForeignPostCommit(hookhist.pre))
    => /\ "post-commit" \in DOMAIN hookfs.files
       /\ hookfs.files["post-commit"] = hookhist.pre.files["post-commit"]
       /\ "post-commit.legacy" \notin DOMAIN hookfs.files
       /\ ManagedLeft(hookfs) = {} => hookfs.hooksPath = Unset

\* C16 (as claimed): from a layout without files in the managed directory
\* (absent or present) and core.hooksPath unset, install then uninstall gives
\* the layout back.
C16_StrictInverse ==
    (/\ hookhist.ops = <<"install", "uninstall">>
     /\ hookhist.pre.files = NoFiles
     /\ hookhist.pre.hooksPath = Unset)
    => hookfs = hookhist.pre

\* C16 (amended): from such a layout, install then uninstall leaves no managed
\* directory and core.hooksPath unset: the layout of before, except that a
\* managed directory that was there, empty, is removed.
C16_InverseButEmptyDir ==
    (/\ hookhist.ops = <<"install", "uninstall">>
     /\ hookhist.pre.files = NoFiles
     /\ hookhist.pre.hooksPath = Unset)
    => hookfs = [hookhist.pre EXCEPT !.exists = FALSE]

\* Install and uninstall ran from a layout whose managed directory was there,
\* empty: the directory is gone.
C16_Witness ==
    /\ hookhist.ops = <<"install", "uninstall">>
    /\ hookhist.pre.exists
    /\ hookhist.pre.files = NoFiles
    /\ hookhist.pre.hooksPath = Unset
    /\ ~hookfs.exists
    /\ hookfs.hooksPath = Unset

\* C17 (as claimed): when core.hooksPath named another directory before install,
\* install then uninstall sets it to that directory again and leaves the
\* scripts of that directory as they were.
C17_RestoresHooksPath ==
    (hookhist.ops = <<"install", "uninstall">> /\ hookhist.pre.hooksPath = OtherDir)
    => /\ hookfs.hooksPath = OtherDir
       /\ hookfs.old = hookhist.pre.old

\* C18: an install that follows an install changes neither directory nor
\* core.hooksPath, and after one or more installs in a row the .legacy sibling
\* of a hook name that held a foreign script holds that script.
C18_InstallTwice ==
    [][/\ (/\ hookhist.ops # << >>
           /\ hookhist.ops[Len(hookhist.ops)] = "install"
           /\ hookhist'.ops = Append(hookhist.ops, "install"))
          => hookfs' = hookfs
       /\ (\A i \in 1..Len(hookhist'.ops) : hookhist'.ops[i] = "install")
          => \A name \in {"post-commit", "post-merge"} :
                (name \in DOMAIN hookhist'.pre.files
                 /\ ~HasMarker(hookhist'.pre.files[name])
                 /\ hookhist'.ops # << >>)
                => /\ Legacy(name) \in DOMAIN hookfs'.files
                   /\ hookfs'.files[Legacy(name)] = hookhist'.pre.files[name]]_vars

\* Two installs in a row over a foreign post-commit: it is in post-commit.legacy.
C18_Witness ==
    /\ hookhist.ops = <<"install", "install">>
    /\ ForeignPostCommit(hookhist.pre)
    /\ hookfs.files["post-commit.legacy"] = hookhist.pre.files["post-commit"]
    /\ hookfs.files["post-commit"] = postCommitHook

\* The foreign scripts some file of the two directories holds.
ForeignHeld(fs) ==
    ({fs.files[n] : n \in DOMAIN fs.files} \cup {fs.old[n] : n \in DOMAIN fs.old})
        \ {postCommitHook, postMergeHook}

\* C19 (as claimed): every foreign script some file held before an install is
\* held by some file after it.
C19_NothingDestroyed ==
    [][hookhist'.ops = Append(hookhist.ops, "install")
        => ForeignHeld(hookfs) \subseteq ForeignHeld(hookfs')]_vars

\* C20: the managed hook script runs an executable <name>.legacy sibling to
\* completion with the original arguments before it starts ingestion; it starts
\* ingestion without waiting for it; and the status it reports to the git
\* operation that fired it is 0, whether ingestion is still running, has
\* succeeded or has failed.
C20_HookScript ==
    [][/\ \A pr \in Running :
            (pr.kind = "hook" /\ pr.pc = "hookIngest" /\ pr \notin BagToSet(procs'))
            => /\ (Legacy(pr.arg.name) \in DOMAIN hookfs.files /\ pr.arg.x)
                    => pr.ran = [script |-> hookfs.files[Legacy(pr.arg.name)],
                                 args |-> pr.arg.args]
               /\ [pr EXCEPT !.pc = "hookExit"] \in BagToSet(procs')
       /\ \A pr \in Running :
            (pr.kind = "hook" /\ pr.pc = "hookExit" /\ procs' = Others(pr))
            => last'.kind = "hook" /\ last'.res.status = 0]_vars

\* The post-commit script has run the script it replaced and has
\* ended while the ingestion it started was still in flight.
C20_Witness ==
    /\ last.kind = "hook"
    /\ last.arg.name = "post-commit"
    /\ last.res.ran = [script |-> "foreign 1", args |-> << >>]
    /\ last.res.ingesting
    /\ last.res.status = 0

C20_WitnessIngestFailed ==
    /\ last.kind = "ingest"
    /\ last.err # ""
    /\ \E pr \in Running : pr.kind = "hook" /\ pr.pc = "hookExit"

\* C21: an Ingest invoked outside a working copy returns a skipped result and
\* no error, an Import invoked outside a working copy returns an error, and the
\* step by which either returns leaves repos, raw_commits and tasks as they were.
C21_OutsideWorkingCopy ==
    [][(last' # last /\ last'.kind \in {"ingest", "import"} /\ ~last'.arg.inRepo)
        => /\ last'.kind = "ingest" => (last'.res.Skipped /\ last'.err = "")
           /\ last'.kind = "import" => last'.err # ""
           /\ UNCHANGED <<repos, commits, tasks, seq>>
           /\ procs' = procs]_vars

\* An Import outside a working copy has failed over a store that holds rows.
C21_Witness ==
    /\ last.kind = "import"
    /\ ~last.arg.inRepo
    /\ last.err = "not a git repository"
    /\ commits # {}

\* An Ingest outside a working copy was skipped over a store that holds rows.
C21_WitnessIngest ==
    /\ last.kind = "ingest"
    /\ ~last.arg.inRepo
    /\ last.res.Skipped /\ last.err = ""
    /\ commits # {}

\* C22: an Ingest in a working copy whose root is under no configured scan path
\* returns a skipped result and no error, and the step by which it returns, its
\* only step, leaves the store unchanged: no repos row, no raw_commits row.
C22_GateBeforeWrite ==
    [][(/\ last' # last
        /\ last'.kind = "ingest"
        /\ last'.arg.inRepo
        /\ \A root \in ScanPaths : ~IsUnder(root, last'.path))
        => /\ last'.res.Skipped /\ last'.err = ""
           /\ UNCHANGED <<repos, commits, tasks, seq>>
           /\ procs = EmptyBag /\ procs' = EmptyBag]_vars

\* The Ingest was skipped in an untracked working copy of which the store
\* already holds the repos row and commits (an Import put them there).
C22_Witness ==
    /\ last.kind = "ingest"
    /\ last.arg.inRepo
    /\ \A root \in ScanPaths : ~IsUnder(root, last.path)
    /\ last.res.Skipped
    /\ \E r \in repos : /\ r.path = last.path
                        /\ \E c \in commits : c.repo = r.id
                        /\ \A c \in commits : c.repo = r.id => c.hash # last.arg.hash

\* The hashes git log hands to an Import asked for count commits (0: all).
Fetched(count) ==
    IF count = 0 THEN Hashes
    ELSE {Hist[i] : i \in {j \in 1..Len(Hist) : j > Len(Hist) - count}}

C23_WitnessTracked ==
    /\ last.kind = "import" /\ last.arg.inRepo
    /\ \E root \in ScanPaths : IsUnder(root, last.path)
    /\ ~last.res.NotInScanPath
    /\ last.res.Imported = Len(Hist)

\* C24 (as claimed): in every reachable state every id in a task's
\* source_commits is the id of a raw_commits row.
C24_SourceCommitsExist ==
    \A t \in tasks : t.commits \subseteq {c.id : c \in commits}

\* C25: a raw_commits row is inserted unprocessed; its processed flag goes from
\* false to true only by the mark-processed statement of a derivation run that
\* has the row in the group it is at, and from true to false only by the UPDATE
\* of a forced Import that found this row for the hash it is at.
C25_ProcessedMonotonic ==
    [][/\ \A nx \in commits' :
            (\A c \in commits : c.id # nx.id) => ~nx.processed
       /\ \A c \in commits, nx \in commits' :
            (c.id = nx.id /\ c.processed # nx.processed)
            => IF nx.processed
               THEN \E pr \in Running :
                        /\ pr.kind = "derive" /\ pr.pc = "mark"
                        /\ c.id \in pr.cur.ids
                        /\ CopiesIn(pr, procs') < CopiesIn(pr, procs)
               ELSE \E pr \in Running :
                        /\ pr.kind = "import" /\ pr.pc = "update" /\ pr.arg.force
                        /\ pr.existing.id = c.id
                        /\ pr.list[pr.i].Hash = c.hash
                        /\ CopiesIn(pr, procs') < CopiesIn(pr, procs)]_vars

\* A commit that had been processed and was reset by a forced reimport is
\* processed again, and the store holds an unprocessed commit next to it.
C25_Witness ==
    \E c \in commits, d \in commits :
        /\ c.processed /\ c.retracted # {}
        /\ ~d.processed

\* C26: soft references never cascade.  The step that deletes a company deletes
\* no project, repository, commit or task and sets company to NULL on exactly the
\* projects of that company; the step that deletes a project deletes no
\* repository and no commit and sets project to NULL on exactly the repositories
\* of that project.
C26_SoftReferences ==
    [][/\ \A id \in companies \ companies' :
            /\ {p.id : p \in projects'} = {p.id : p \in projects}
            /\ \A p \in projects, nx \in projects' :
                    p.id = nx.id => nx.company = IF p.company = id THEN NoId
                                                ELSE p.company
            /\ UNCHANGED <<repos, commits, tasks>>
       /\ \A id \in {p.id : p \in projects} \ {p.id : p \in projects'} :
            /\ {r.id : r \in repos'} = {r.id : r \in repos}
            /\ \A r \in repos, nx \in repos' :
                    r.id = nx.id => nx = [r EXCEPT !.project = IF r.project = id
                                                                THEN NoId ELSE @]
            /\ UNCHANGED <<commits, companies>>]_vars

\* A company was deleted: the project that was in it has no company and still
\* has its task, and a second project is there.
C26_Witness ==
    \E p \in projects, q \in projects :
        /\ p.left # NoId /\ p.left \notin companies /\ p.company = NoId
        /\ \E t \in tasks : t.project = p.id
        /\ q.id # p.id /\ q.left = NoId

\* A project was deleted: the repository whose commit was processed for it has
\* no project and keeps the commit, and a second repository is still assigned.
C26_WitnessProject ==
    /\ seq.projects = 2 /\ Cardinality(projects) = 1
    /\ \E r \in repos, o \in repos :
        /\ r.project = NoId
        /\ \E c \in commits : c.repo = r.id /\ c.processed
        /\ o.project # NoId
        /\ \E c \in commits : c.repo = o.id /\ c.processed

\* C27: hard ownership cascades exactly.  The step that deletes a repository
\* deletes the commits of that repository and no other commit and no task; the
\* step that deletes a project deletes the tasks of that project and no other
\* task and no commit.
C27_HardOwnership ==
    [][/\ \A id \in {r.id : r \in repos} \ {r.id : r \in repos'} :
            /\ commits' = {c \in commits : c.repo # id}
            /\ tasks' = tasks
       /\ \A id \in {p.id : p \in projects} \ {p.id : p \in projects'} :
            /\ tasks' = {t \in tasks : t.project # id}
            /\ commits' = commits]_vars

\* A project was deleted and its task went with it, while the task of the other
\* project is still there.
C27_Witness ==
    /\ seq.projects = 2 /\ Cardinality(projects) = 1
    /\ seq.tasks = 2 /\ Cardinality(tasks) = 1
    /\ \A t \in tasks : \E p \in projects : p.id = t.project

\* A repository was deleted and its commit went with it, while the commit of the
\* other repository is still there.
C27_WitnessRepo ==
    /\ seq.repos = 2 /\ Cardinality(repos) = 1
    /\ seq.commits = 2 /\ Cardinality(commits) = 1
    /\ \A c \in commits : \E r \in repos : r.id = c.repo

\* The distance of two numbers of hundredths.
Dist(a, b) == IF a < b THEN b - a ELSE a - b

\* An estimate is a positive multiple of 0.5.
IsHalfMultiple(e) == e.class = "decimal" /\ e.h > 0 /\ e.h % 50 = 0

\* C28 (as claimed): a token below 0.5 yields 0.5, a line without token yields
\* 0.5, any other token yields the multiple of 0.5 nearest to it, and every
\* estimate parsing produces is a positive multiple of 0.5.
C28_EffortRounding ==
    last.kind = "parse" =>
        /\ IsHalfMultiple(last.res)
        /\ last.token.class = "none" => last.res = Hours(50)
        /\ (last.token.class = "decimal" /\ last.token.h < 50) => last.res = Hours(50)
        /\ (last.token.class = "decimal" /\ last.token.h >= 50)
                => Dist(last.res.h, last.token.h) <= 25

\* C28, for the tokens of up to MaxToken hundredths and the lines without
\* token: the estimate is as claimed.
C28_OrdinaryTokens ==
    (last.kind = "parse" /\ last.token.class \in {"none", "decimal"})
    => /\ IsHalfMultiple(last.res)
       /\ (last.token.class = "none" \/ last.token.h < 50) => last.res = Hours(50)
       /\ (last.token.class = "decimal" /\ last.token.h >= 50)
                => Dist(last.res.h, last.token.h) <= 25
       /\ last.token = Hours(20) => last.res = Hours(50)
       /\ last.token = Hours(74) => last.res = Hours(50)
       /\ last.token = Hours(126) => last.res = Hours(150)

\* The place of a hash in the history, counted from the oldest commit.
Age(h) == CHOOSE k \in 1..Len(Hist) : Hist[k] = h

\* C29 (as claimed): an Import handles the commits it fetched from the oldest
\* to the newest: the commit it handled before the one it is at is the older
\* of the two.
C29_OldestFirst ==
    \A pr \in Running :
        (pr.kind = "import" /\ pr.i > 1)
        => Age(pr.list[pr.i - 1].Hash) < Age(pr.list[pr.i].Hash)

\* The agent identifiers agent.New does not know.
UnknownAgents == AgentTypes \ {"codex", "claude"}

C31_NoCommitLost ==
    last.kind = "ingest" =>
        /\ Cardinality({r \in repos : r.path = last.path}) = 1
        /\ RowsOf(last.path, last.arg.hash) # {}

\* What an Import reports about its repository when it returns: the repos row
\* of its working copy exists and IsOrphan says whether it has no project.
ReportsRepo(summary, rows) ==
    \E r \in rows : r.path = summary.path /\ (summary.res.IsOrphan <=> r.project = NoId)

\* C32 (as claimed): when an Import returns without error it leaves a repos
\* row for its working copy and reports IsOrphan as true exactly when that
\* row has no project.
C32_ImportLeavesRepo ==
    [][(last' # last /\ last'.kind = "import" /\ last'.err = "")
        => ReportsRepo(last', repos')]_vars

\* The same for the Imports that fetched at least one commit.
C32_NonEmptyRange ==
    [][(last' # last /\ last'.kind = "import" /\ last'.err = ""
            /\ last'.res.TotalFound > 0)
        => ReportsRepo(last', repos')]_vars

\* No step of an Ingest or an Import changes the project of a repos row.
C32_ProjectRefKept ==
    [][\A pr \in Running :
        (pr.kind \in {"ingest", "import"} /\ CopiesIn(pr, procs') < CopiesIn(pr, procs))
        => \A r \in repos : \E q \in repos' : q.id = r.id /\ q.project = r.project]_vars

\* C33: an Import that returned without error reports TotalFound = Imported +
\* Skipped + Updated; without force Updated = 0 and TasksDeleted = 0, with
\* force Skipped = 0.
C33_CountsAddUp ==
    (last.kind = "import" /\ last.err = "") =>
        /\ last.res.TotalFound = last.res.Imported + last.res.Skipped + last.res.Updated
        /\ ~last.arg.force => (last.res.Updated = 0 /\ last.res.TasksDeleted = 0)
        /\ last.arg.force => last.res.Skipped = 0

\* A forced Import of the whole history rewrote one commit, deleting a task
\* with it, and inserted the other.
C33_Witness ==
    /\ last.kind = "import" /\ last.err = "" /\ last.arg.force
    /\ last.res.TotalFound = 2
    /\ last.res.Updated = 1 /\ last.res.Imported = 1
    /\ last.res.TasksDeleted > 0

\* An Import without force skipped one commit and inserted the other.
C33_WitnessSkipped ==
    /\ last.kind = "import" /\ last.err = "" /\ ~last.arg.force
    /\ last.res.TotalFound = 2
    /\ last.res.Skipped = 1 /\ last.res.Imported = 1

\* C34: the step of a derivation run that groups the loaded commits puts every
\* loaded commit whose repository has a project into exactly one group, the
\* group of that project, and a commit without such a repository into none;
\* every task a run inserts has the project of the group the run is at, which is
\* one of the groups it formed, and exactly the commit ids of that group.
C34_GroupsPartition ==
    [][\A pr \in Running :
        /\ \A agentType \in AgentTypes : \A nx \in BagToSet(procs') :
              (/\ DeriveGroup(pr, agentType)
               /\ nx.kind = "derive" /\ nx.pc = "agent" /\ nx.snap = pr.snap
               /\ CopiesIn(nx, procs') > CopiesIn(nx, procs))
              => \A c \in pr.snap :
                    LET repo == RepoGetByID(c.repo)
                        mine == {g \in nx.groups : c.id \in g.ids}
                    IN  IF repo.id # NoId /\ repo.project # NoId
                        THEN /\ Cardinality(mine) = 1
                             /\ \A g \in mine : g.project = repo.project
                        ELSE mine = {}
        /\ \A ok \in BOOLEAN :
              DeriveCreateTask(pr, ok)
              => /\ pr.cur \in pr.all
                 /\ \A t \in tasks' \ tasks :
                       /\ t.project = pr.cur.project
                       /\ t.commits = pr.cur.ids]_vars

\* One run formed two groups and created a task for each: the two tasks have
\* different projects and each references the commit of its project's
\* repository.
C34_Witness ==
    /\ last.kind = "derive" /\ last.err = ""
    /\ \E t, u \in tasks :
          /\ t.project # u.project
          /\ t.commits \cap u.commits = {}
          /\ \A x \in {t, u} : \A id \in x.commits : \E c \in commits :
                c.id = id /\ RepoGetByID(c.repo).project = x.project

\* One run created a task for a group of two commits of two repositories of
\* the same project.
C34_WitnessTwoCommits ==
    /\ last.kind = "derive" /\ last.err = ""
    /\ \E t \in tasks : \E c, d \in commits :
          /\ c.repo # d.repo
          /\ t.commits = {c.id, d.id}
          /\ RepoGetByID(c.repo).project = t.project
          /\ RepoGetByID(d.repo).project = t.project

\* The descriptions of the tasks in res, in order.
Descriptions(res) == [i \in 1..Len(res) |-> res[i].Description]

\* What the claim says about one line: a task iff the trimmed line without its
\* bullet has at least 5 characters, described by that line without its
\* leading hour token.
ClaimedOf(raw) ==
    LET line == StripBullet(TrimSpace(raw))
        match == timePattern(line)
    IN  IF Len(line) < 5 THEN << >>
        ELSE IF match.ok THEN <<TrimSpace(SubSeq(line, match.end, Len(line)))>>
        ELSE <<line>>

RECURSIVE ClaimedOfAll(_)
ClaimedOfAll(lines) ==
    IF lines = << >> THEN << >>
    ELSE ClaimedOf(Head(lines)) \o ClaimedOfAll(Tail(lines))

\* C35 (as claimed): parseResponse returns, in line order, one task per line
\* that after trimming and stripping the bullet has at least 5 characters, and
\* none for the other lines; the description is the line without its leading
\* hour token, and no description is empty.
C35_OneTaskPerLine ==
    last.kind = "parsed" =>
        /\ Descriptions(last.res) = ClaimedOfAll(Split(last.response))
        /\ \A i \in 1..Len(last.res) : last.res[i].Description # << >>

\* No returned task has an empty description.
C35_NonEmptyDescriptions ==
    last.kind = "parsed" =>
        \A i \in 1..Len(last.res) : last.res[i].Description # << >>

\* The claim restricted to the responses of one-byte characters in which no
\* line is an hour token alone.
C35_PlainLines ==
    (/\ last.kind = "parsed"
     /\ \A i \in 1..Len(last.response) : last.response[i] # "é"
     /\ \A i \in 1..Len(Split(last.response)) :
            LET line == StripBullet(TrimSpace(Split(last.response)[i]))
            IN  ~(timePattern(line).ok /\ timePattern(line).end > Len(line)))
    => Descriptions(last.res) = ClaimedOfAll(Split(last.response))

\* The run in local state pr, past the agent call of the group it is at, is
\* done with that group in this step: it goes on to another group or ends.
LeavesGroup(pr) ==
    /\ pr.kind = "derive"
    /\ pr.pc \in {"persist", "mark"}
    /\ CopiesIn(pr, procs') < CopiesIn(pr, procs)
    /\ \A nx \in BagToSet(procs') :
          (nx.kind = "derive" /\ nx.pc \in {"persist", "mark"} /\ nx.cur = pr.cur)
          => CopiesIn(nx, procs') <= CopiesIn(nx, procs)

\* C36 (as claimed): when a run is done with a group whose agent call
\* succeeded, every commit of the group is processed.
C36_AgentSuccessMarks ==
    [][\A pr \in Running :
        (LeavesGroup(pr) /\ pr.agentOk)
        => \A c \in commits' : c.id \in pr.cur.ids => c.processed]_vars

\* C36 (amended): a successful agent call that parsed to zero task lines takes
\* the run straight to the mark step of the group; a successful mark step comes
\* after all task lines of the group were persisted, leaves every commit of
\* the group processed and stores no task; a run that is done with a group in
\* any other way ends with an error and changes no commit.
C36_PersistedGroupMarked ==
    [][\A pr \in Running :
        /\ \A g \in GroupsOf(pr) :
              DeriveAgent(pr, g, TRUE, 0)
              => /\ \E nx \in BagToSet(procs') :
                        nx.kind = "derive" /\ nx.pc = "mark" /\ nx.cur = g /\ nx.lines = 0
                 /\ tasks' = tasks /\ commits' = commits
        /\ DeriveMark(pr, TRUE)
              => /\ pr.agentOk /\ pr.created = pr.lines
                 /\ \A c \in commits' : c.id \in pr.cur.ids => c.processed
                 /\ tasks' = tasks
        /\ (LeavesGroup(pr) /\ ~DeriveMark(pr, TRUE))
              => /\ procs' = Others(pr)
                 /\ last'.err \in {"failed to create task",
                                   "failed to mark commits processed"}
                 /\ commits' = commits]_vars

\* A run ended without error and without a task: a commit of a repository with
\* a project is processed and no task references it.
C36_Witness ==
    /\ last.kind = "derive" /\ last.err = ""
    /\ last.res.tasksCreated = 0
    /\ tasks = {}
    /\ \E c \in commits : c.processed /\ RepoGetByID(c.repo).project # NoId

\* C37 (as claimed): where no commit is reimported with force, a run that
\* inserts the first task of a group finds no stored task that references a
\* commit of that group: no other run has created a task from the same commit.
C37_OneRunPerCommit ==
    [][\A pr \in Running :
        (DeriveCreateTask(pr, TRUE) /\ pr.created = 0)
        => \A t \in tasks : t.commits \cap pr.cur.ids = {}]_vars

\* After this Install the foreign hook that the old hooks path held under name
\* still runs on its trigger: the managed directory holds a managed script under
\* that name, which executes <name>.legacy, and <name>.legacy is the migrated
\* copy.
KeepsRunning(name) ==
    /\ name \in DOMAIN hookfs'.files
    /\ HasMarker(hookfs'.files[name])
    /\ Legacy(name) \in DOMAIN hookfs'.files
    /\ hookfs'.files[Legacy(name)] = hookfs.old[name]

\* C38 (as claimed): an Install that finds another hooks path configured leaves
\* every foreign hook of that path running on its trigger, whatever its name.
C38_ForeignHooksKeepRunning ==
    [][(Install /\ hookfs.hooksPath = OtherDir)
        => \A name \in DOMAIN hookfs.old : KeepsRunning(name)]_vars

\* The same for the managed trigger names, where the managed directory holds no
\* foreign script of its own under the name.
C38_ManagedTriggers ==
    [][(Install /\ hookfs.hooksPath = OtherDir)
        => \A name \in DOMAIN hookfs.old \cap {"post-commit", "post-merge"} :
              (name \in DOMAIN hookfs.files => HasMarker(hookfs.files[name]))
              => KeepsRunning(name)]_vars

\* The Process screen shows the error view, with "[enter] Try again  [q] Back".
ErrorShown == ui.screen = "process" /\ ProcessView(ui.model) = "error"

\* The keys the error view advertises work: "q" starts the way back to the
\* dashboard and "enter" starts a command.
AdvertisedKeysWork ==
    /\ handleKey(ui.model, "q").cmd = Navigate("dashboard")
    /\ handleKey(ui.model, "enter").cmd # NoCmd

\* C39 (as claimed): whenever the Process screen shows the error of a
\* processing run, "q" leads back to the dashboard and "enter" starts another
\* attempt; in particular some key has an effect.
C39_ErrorKeysWork ==
    (ErrorShown /\ ui.model.errFrom = "runProcessing")
    => /\ AdvertisedKeysWork
       /\ \E key \in ProcessKeys : handleKey(ui.model, key) # Handled(ui.model, NoCmd)

\* The advertised keys work wherever the error view is shown in another mode
\* than the one of a processing run.
C39_OtherModes ==
    (ErrorShown /\ ui.model.mode # "processing") => AdvertisedKeysWork

\* C40 (as claimed): whenever the Repos screen handles the confirm key of the
\* assign mode or of the delete mode, the cursor is an index of the list of
\* repositories shown.
C40_CursorValid ==
    [][\A key \in ReposKeys :
        (/\ ReposKey(key)
         /\ \/ ui.model.mode = "assign" /\ key = "enter"
            \/ ui.model.mode = "delete" /\ key = "y")
        => InRange(ui.model.repos, ui.model.cursor)]_vars

\* Outside the two confirm keys the cursor is used only where the list was
\* just found non-empty: whenever the list shown changes, filterRepos leaves the
\* cursor at an index of it, or at 0 when the list is empty.
C40_CursorClamped ==
    (ui.screen = "repos" /\ ui.model.mode = "list")
    => (ui.model.cursor = 0 \/ InRange(ui.model.repos, ui.model.cursor))
====
